---- MODULE Spec2Model ----
(***************************************************************************)
(* Model of MdLinkParser (src/src/zim2obsidian.py), the state machine that *)
(* converts Markdown links to wikilinks, and of main() and the procedures  *)
(* it runs on the pages of the working directory.                          *)
(*                                                                         *)
(* A character is its Unicode code point, a string is a sequence of code   *)
(* points.  This keeps percent-decoding (bytes -> UTF-8 -> characters)     *)
(* computable instead of a lookup table.                                   *)
(***************************************************************************)
EXTENDS Integers, Sequences, FiniteSets, TLC

VARIABLES
    results,      \* self.results: list of fragments (characters and strings)
    descBuffer,   \* self.descBuffer: list of characters
    addrBuffer,   \* self.addrBuffer: list of characters
    state,        \* self.state
    pc,           \* position of the caller: "idle", "feed" (in the loop of feed), "raised"
    op,           \* the public method the feed loop runs for: "to_wikilinks" or "feed"
    data,         \* the characters the loop of feed() has not read yet
    text,         \* the argument of the current (or last) to_wikilinks call
    ret,          \* the value the last to_wikilinks call returned, NoRet if none
    calls,        \* the number of calls the caller is still going to make
    before,       \* history: what the last to_wikilinks call found in the instance
    files,        \* the working directory: path |-> text of the file
    attrs,        \* the module attributes that are set
    args,         \* the arguments of the main() call
    phase,        \* where main() is
    locals,       \* the local variables of the procedure main() is in
    log           \* the messages that were printed

\* the variables of main() and of its procedures
driverVars == <<files, attrs, args, phase, locals, log>>

vars == <<results, descBuffer, addrBuffer, state, pc, op, data, text, ret, calls, before,
          files, attrs, args, phase, locals, log>>

----------------------------------------------------------------------------
(* Characters *)

Ord(ch) ==
    CASE ch = "\t" -> 9   [] ch = "\n" -> 10  [] ch = "\r" -> 13
      [] ch = " "  -> 32  [] ch = "#"  -> 35  [] ch = "%"  -> 37
      [] ch = "("  -> 40  [] ch = ")"  -> 41  [] ch = "+"  -> 43
      [] ch = "-"  -> 45  [] ch = "."  -> 46  [] ch = "/"  -> 47
      [] ch = "0"  -> 48  [] ch = "2"  -> 50  [] ch = "3"  -> 51
      [] ch = "9"  -> 57  [] ch = ":"  -> 58  [] ch = "?"  -> 63
      [] ch = "A"  -> 65  [] ch = "E"  -> 69  [] ch = "F"  -> 70
      [] ch = "Z"  -> 90  [] ch = "["  -> 91  [] ch = "]"  -> 93
      [] ch = "a"  -> 97  [] ch = "f"  -> 102 [] ch = "z"  -> 122
      [] ch = "|"  -> 124
      [] ch = "\"" -> 34  [] ch = "*"  -> 42  [] ch = "<"  -> 60
      [] ch = "="  -> 61  [] ch = ">"  -> 62  [] ch = "@"  -> 64
      [] ch = "N"  -> 78  [] ch = "X"  -> 88  [] ch = "Y"  -> 89
      [] ch = "_"  -> 95  [] ch = "T"  -> 84
      [] ch = "b"  -> 98  [] ch = "c"  -> 99  [] ch = "d"  -> 100
      [] ch = "e"  -> 101 [] ch = "m"  -> 109 [] ch = "n"  -> 110
      [] ch = "o"  -> 111 [] ch = "x"  -> 120 [] ch = "~"  -> 126

Range(s) == {s[i] : i \in 1..Len(s)}

\* s without its first n characters (s[n:])
Drop(s, n) == SubSeq(s, n + 1, Len(s))

\* str.startswith
StartsWith(s, prefix) ==
    /\ Len(s) >= Len(prefix)
    /\ SubSeq(s, 1, Len(prefix)) = prefix

\* str.find: the first index (1-based) >= start where one of the characters cs
\* stands, 0 if there is none
Find(s, cs, start) ==
    LET hits == {i \in start..Len(s) : s[i] \in cs}
    IN  IF hits = {} THEN 0 ELSE CHOOSE i \in hits : \A j \in hits : i <= j

\* str.replace(old, new) for single characters
Replace(s, old, new) == [i \in 1..Len(s) |-> IF s[i] = old THEN new ELSE s[i]]

\* str.replace(c, "") for every c of cs
RECURSIVE Remove(_, _)
Remove(s, cs) ==
    IF s = <<>> THEN <<>>
    ELSE IF Head(s) \in cs THEN Remove(Tail(s), cs)
    ELSE <<Head(s)>> \o Remove(Tail(s), cs)

\* str.lstrip(cs)
RECURSIVE LStrip(_, _)
LStrip(s, cs) ==
    IF s # <<>> /\ Head(s) \in cs THEN LStrip(Tail(s), cs) ELSE s

\* ''.join(fragments)
RECURSIVE join(_)
join(fragments) ==
    IF fragments = <<>> THEN <<>>
    ELSE Head(fragments) \o join(Tail(fragments))

\* list.extend(chars): every character becomes a fragment of its own
extend(fragments, chars) ==
    fragments \o [i \in 1..Len(chars) |-> <<chars[i]>>]

----------------------------------------------------------------------------
(* urllib.parse.unquote(string), called with the defaults encoding='utf-8', *)
(* errors='replace'.                                                        *)

IsHexDigit(c) ==
    \/ c \in Ord("0")..Ord("9")
    \/ c \in Ord("A")..Ord("F")
    \/ c \in Ord("a")..Ord("f")

\* int(c, 16) of one hexadecimal digit
HexValue(c) ==
    IF c \in Ord("0")..Ord("9") THEN c - Ord("0")
    ELSE IF c \in Ord("A")..Ord("F") THEN c - Ord("A") + 10
    ELSE c - Ord("a") + 10

\* unquote_to_bytes of a run of ASCII characters: every '%' followed by two
\* hexadecimal digits becomes the byte they denote, every other character
\* (a '%' without two digits included) is its own byte
RECURSIVE unquote_to_bytes(_)
unquote_to_bytes(run) ==
    IF run = <<>> THEN <<>>
    ELSE IF /\ Head(run) = Ord("%")
            /\ Len(run) >= 3
            /\ IsHexDigit(run[2])
            /\ IsHexDigit(run[3])
    THEN <<16 * HexValue(run[2]) + HexValue(run[3])>> \o unquote_to_bytes(Drop(run, 3))
    ELSE <<Head(run)>> \o unquote_to_bytes(Tail(run))

\* U+FFFD, what errors='replace' puts for an undecodable byte sequence
ReplacementChar == 65533

\* the number of bytes the UTF-8 sequence led by b needs after b (0: b is no lead)
Followers(b) ==
    IF b \in 194..223 THEN 1
    ELSE IF b \in 224..239 THEN 2
    ELSE IF b \in 240..244 THEN 3
    ELSE 0

\* the values the byte after lead b may have
SecondByteRange(b) ==
    IF b = 224 THEN 160..191
    ELSE IF b = 237 THEN 128..159
    ELSE IF b = 240 THEN 144..191
    ELSE IF b = 244 THEN 128..143
    ELSE 128..191

\* how many of the bytes after the lead bs[1] continue its sequence, at most n
RECURSIVE ValidFollowers(_, _, _)
ValidFollowers(bs, k, n) ==
    IF k > n \/ k + 1 > Len(bs) THEN k - 1
    ELSE IF bs[k + 1] \in (IF k = 1 THEN SecondByteRange(bs[1]) ELSE 128..191)
    THEN ValidFollowers(bs, k + 1, n)
    ELSE k - 1

\* the code point of a complete sequence of 1 + n bytes
RECURSIVE CodePoint(_, _, _)
CodePoint(bs, n, acc) ==
    IF n = 0 THEN acc
    ELSE CodePoint(Tail(bs), n - 1, acc * 64 + (Head(bs) % 64))

LeadBits(b) ==
    IF b \in 194..223 THEN b % 32
    ELSE IF b \in 224..239 THEN b % 16
    ELSE b % 8

\* bytes.decode('utf-8', 'replace'): an ill-formed sequence is replaced, as far
\* as it is the prefix of a well-formed one, by one U+FFFD
RECURSIVE Utf8Decode(_)
Utf8Decode(bs) ==
    IF bs = <<>> THEN <<>>
    ELSE IF Head(bs) < 128 THEN <<Head(bs)>> \o Utf8Decode(Tail(bs))
    ELSE LET n == Followers(Head(bs))
             k == ValidFollowers(bs, 1, n)
         IN  IF n > 0 /\ k = n
             THEN <<CodePoint(Drop(bs, 1), n, LeadBits(Head(bs)))>> \o Utf8Decode(Drop(bs, n + 1))
             ELSE <<ReplacementChar>> \o Utf8Decode(Drop(bs, k + 1))

\* the length of the longest prefix of s made of ASCII characters
RECURSIVE AsciiPrefix(_)
AsciiPrefix(s) ==
    IF s = <<>> \/ Head(s) >= 128 THEN 0 ELSE 1 + AsciiPrefix(Tail(s))

\* the runs of ASCII characters are decoded, the other characters are kept
RECURSIVE UnquoteRuns(_)
UnquoteRuns(s) ==
    IF s = <<>> THEN <<>>
    ELSE IF Head(s) >= 128 THEN <<Head(s)>> \o UnquoteRuns(Tail(s))
    ELSE LET n == AsciiPrefix(s)
         IN  Utf8Decode(unquote_to_bytes(SubSeq(s, 1, n))) \o UnquoteRuns(Drop(s, n))

unquote(string) ==
    IF Ord("%") \notin Range(string) THEN string ELSE UnquoteRuns(string)

----------------------------------------------------------------------------
(* urllib.parse.urlparse(addrStr).scheme, as far as handle_addr_end reads  *)
(* it: is the scheme non-empty ("url"), is it empty ("path"), or does      *)
(* urlparse raise ("ValueError").                                          *)

\* _WHATWG_C0_CONTROL_OR_SPACE
C0ControlOrSpace == 0..32

\* _UNSAFE_URL_BYTES_TO_REMOVE
UnsafeUrlBytes == {Ord("\t"), Ord("\r"), Ord("\n")}

IsAsciiAlpha(c) == c \in Ord("A")..Ord("Z") \/ c \in Ord("a")..Ord("z")

\* scheme_chars
SchemeChars ==
    (Ord("a")..Ord("z")) \cup (Ord("A")..Ord("Z")) \cup (Ord("0")..Ord("9"))
        \cup {Ord("+"), Ord("-"), Ord(".")}

\* the url as urlsplit reads it: leading controls and spaces stripped, tabs
\* and line ends removed
CleanUrl(addrStr) == Remove(LStrip(addrStr, C0ControlOrSpace), UnsafeUrlBytes)

\* the index of the ':' that ends the scheme of url, 0 if url has no scheme
SchemeEnd(url) ==
    LET i == Find(url, {Ord(":")}, 1)
    IN  IF /\ i > 1
           /\ IsAsciiAlpha(url[1])
           /\ \A j \in 1..(i - 1) : url[j] \in SchemeChars
        THEN i ELSE 0

\* the network location of what follows the scheme (_splitnetloc), <<>> if
\* that does not start with '//'
Netloc(rest) ==
    IF StartsWith(rest, <<Ord("/"), Ord("/")>>)
    THEN LET delim == Find(rest, {Ord("/"), Ord("?"), Ord("#")}, 3)
         IN  SubSeq(rest, 3, IF delim = 0 THEN Len(rest) ELSE delim - 1)
    ELSE <<>>

\* The outcomes urlparse can have.  A netloc with one of '[' and ']' but not
\* the other raises "Invalid IPv6 URL".  A netloc with both has its bracketed
\* host validated by the interpreters that have _check_bracketed_host, and a
\* netloc with non-ASCII characters is checked under NFKC normalization: both
\* may raise or pass, depending on the interpreter and on the host.
urlparse(addrStr) ==
    LET url == CleanUrl(addrStr)
        i == SchemeEnd(url)
        netloc == Netloc(Drop(url, i))
        parsed == IF i > 0 THEN "url" ELSE "path"
        open == Ord("[") \in Range(netloc)
        shut == Ord("]") \in Range(netloc)
    IN  IF open # shut THEN {"ValueError"}
        ELSE IF open /\ shut THEN {parsed, "ValueError"}
        ELSE IF \E j \in 1..Len(netloc) : netloc[j] >= 128 THEN {parsed, "ValueError"}
        ELSE {parsed}

\* str.removeprefix
removeprefix(s, prefix) ==
    IF StartsWith(s, prefix) THEN Drop(s, Len(prefix)) ELSE s

----------------------------------------------------------------------------
(* class MdLinkParser *)

BODY == 0
DESC == 1
LINK == 2
ADDRESS == 3

\* the characters MdLinkParser.markup has a handler for
Markup == {Ord("["), Ord("]"), Ord("("), Ord(")")}

\* the instance as a record; exc tells that a handler raised
Self == [results |-> results, descBuffer |-> descBuffer,
         addrBuffer |-> addrBuffer, state |-> state, exc |-> FALSE]

\* __init__
NewParser == [results |-> <<>>, descBuffer |-> <<>>, addrBuffer |-> <<>>,
              state |-> BODY, exc |-> FALSE]

\* reset without line 357, self.state = self.BODY
reset_state_kept(self) ==
    [self EXCEPT !.results = <<>>, !.descBuffer = <<>>, !.addrBuffer = <<>>]

reset(self) ==
    [self EXCEPT !.results = <<>>, !.descBuffer = <<>>, !.addrBuffer = <<>>,
                 !.state = BODY]

\* handle_data with the last line, self.results.append(c), indented into the
\* LINK branch: a character read in BODY is dropped
handle_data_body_dropped(self, c) ==
    IF self.state = DESC
    THEN [self EXCEPT !.descBuffer = Append(@, c)]
    ELSE IF self.state = ADDRESS
    THEN [self EXCEPT !.addrBuffer = Append(@, c)]
    ELSE IF self.state = LINK
    THEN [self EXCEPT
            !.results = Append(Append(extend(Append(@, <<Ord("[")>>), self.descBuffer),
                                      <<Ord("]")>>), <<c>>),
            !.descBuffer = <<>>,
            !.state = BODY]
    ELSE self

\* handle_data without lines 436-438: in LINK the bracketed text is not put
\* back to the result
handle_data_not_restored(self, c) ==
    IF self.state = DESC
    THEN [self EXCEPT !.descBuffer = Append(@, c)]
    ELSE IF self.state = ADDRESS
    THEN [self EXCEPT !.addrBuffer = Append(@, c)]
    ELSE IF self.state = LINK
    THEN [self EXCEPT !.results = Append(@, <<c>>), !.descBuffer = <<>>, !.state = BODY]
    ELSE [self EXCEPT !.results = Append(@, <<c>>)]

handle_data(self, c) ==
    IF self.state = DESC
    THEN [self EXCEPT !.descBuffer = Append(@, c)]
    ELSE IF self.state = ADDRESS
    THEN [self EXCEPT !.addrBuffer = Append(@, c)]
    ELSE IF self.state = LINK
    THEN [self EXCEPT
            !.results = Append(Append(extend(Append(@, <<Ord("[")>>), self.descBuffer),
                                      <<Ord("]")>>), <<c>>),
            !.descBuffer = <<>>,
            !.state = BODY]
    ELSE [self EXCEPT !.results = Append(@, <<c>>)]

\* handle_desc_start without the test of the state: every '[' opens a description
handle_desc_start_unconditional(self, c) ==
    [self EXCEPT !.state = DESC]

handle_desc_start(self, c) ==
    IF self.state = BODY
    THEN [self EXCEPT !.state = DESC]
    ELSE handle_data(self, c)

\* handle_desc_end without the test of the state: every ']' ends a description
handle_desc_end_unconditional(self, c) ==
    [self EXCEPT !.state = LINK]

handle_desc_end(self, c) ==
    IF self.state = DESC
    THEN [self EXCEPT !.state = LINK]
    ELSE handle_data(self, c)

handle_addr_start(self, c) ==
    IF self.state = LINK
    THEN [self EXCEPT !.state = ADDRESS]
    ELSE handle_data(self, c)

\* RestoreLink with the address percent-decoded as for a wikilink
RestoreLink_unquoted(self) ==
    Append(Append(Append(extend(Append(self.results, <<Ord("[")>>), self.descBuffer),
                         <<Ord("]"), Ord("(")>>),
                  unquote(self.addrBuffer)),
           <<Ord(")")>>)

\* lines 388-394: the address is an external URL
RestoreLink(self) ==
    Append(Append(Append(extend(Append(self.results, <<Ord("[")>>), self.descBuffer),
                         <<Ord("]"), Ord("(")>>),
                  self.addrBuffer),
           <<Ord(")")>>)

\* AddrWikilink with lines 398 and 400 swapped: decoded first, './' removed then
AddrWikilink_decode_first(self) ==
    LET addrStr == removeprefix(unquote(self.addrBuffer), <<Ord("."), Ord("/")>>)
        opened == Append(Append(self.results, <<Ord("["), Ord("[")>>), addrStr)
        described == IF self.descBuffer # <<>>
                     THEN extend(Append(opened, <<Ord("|")>>), self.descBuffer)
                     ELSE opened
    IN  Append(described, <<Ord("]"), Ord("]")>>)

\* AddrWikilink without lines 402-404: the description is not emitted
AddrWikilink_desc_dropped(self) ==
    LET addrStr == unquote(removeprefix(self.addrBuffer, <<Ord("."), Ord("/")>>))
    IN  Append(Append(Append(self.results, <<Ord("["), Ord("[")>>), addrStr),
               <<Ord("]"), Ord("]")>>)

\* lines 397-405: a wikilink with address and description
AddrWikilink(self) ==
    LET addrStr == unquote(removeprefix(self.addrBuffer, <<Ord("."), Ord("/")>>))
        opened == Append(Append(self.results, <<Ord("["), Ord("[")>>), addrStr)
        described == IF self.descBuffer # <<>>
                     THEN extend(Append(opened, <<Ord("|")>>), self.descBuffer)
                     ELSE opened
    IN  Append(described, <<Ord("]"), Ord("]")>>)

\* DescWikilink with lines 413 and 414 swapped: decoded first, ':' replaced then
DescWikilink_decode_first(self) ==
    LET addrStr == Replace(unquote(self.descBuffer), Ord(":"), Ord("/"))
    IN  Append(Append(Append(self.results, <<Ord("["), Ord("[")>>), addrStr),
               <<Ord("]"), Ord("]")>>)

\* lines 408-416: no explicit address given
DescWikilink(self) ==
    LET addrStr == unquote(Replace(self.descBuffer, Ord(":"), Ord("/")))
    IN  Append(Append(Append(self.results, <<Ord("["), Ord("[")>>), addrStr),
               <<Ord("]"), Ord("]")>>)

\* AddrEnd without line 419, self.descBuffer.clear()
AddrEnd_desc_kept(self, parsed) ==
    IF parsed = "ValueError"
    THEN [self EXCEPT !.exc = TRUE]
    ELSE [self EXCEPT
            !.results = IF self.addrBuffer # <<>>
                        THEN IF parsed = "url" THEN RestoreLink(self) ELSE AddrWikilink(self)
                        ELSE DescWikilink(self),
            !.addrBuffer = <<>>,
            !.state = BODY]

\* AddrEnd without line 418, self.addrBuffer.clear()
AddrEnd_addr_kept(self, parsed) ==
    IF parsed = "ValueError"
    THEN [self EXCEPT !.exc = TRUE]
    ELSE [self EXCEPT
            !.results = IF self.addrBuffer # <<>>
                        THEN IF parsed = "url" THEN RestoreLink(self) ELSE AddrWikilink(self)
                        ELSE DescWikilink(self),
            !.descBuffer = <<>>,
            !.state = BODY]

\* handle_addr_end when urlparse has the outcome parsed
AddrEnd(self, parsed) ==
    IF parsed = "ValueError"
    THEN [self EXCEPT !.exc = TRUE]
    ELSE [self EXCEPT
            !.results = IF self.addrBuffer # <<>>
                        THEN IF parsed = "url" THEN RestoreLink(self) ELSE AddrWikilink(self)
                        ELSE DescWikilink(self),
            !.addrBuffer = <<>>,
            !.descBuffer = <<>>,
            !.state = BODY]

\* the instances handle_addr_end can leave: urlparse is called only for a
\* non-empty address buffer
handle_addr_end(self, c) ==
    IF self.state = ADDRESS
    THEN IF self.addrBuffer # <<>>
         THEN {AddrEnd(self, parsed) : parsed \in urlparse(self.addrBuffer)}
         ELSE {AddrEnd(self, "path")}
    ELSE {handle_data(self, c)}

\* self.markup.get(c, self.handle_data)(c): the instances one character of
\* feed can leave
markup(self, c) ==
    IF c = Ord("[") THEN {handle_desc_start(self, c)}
    ELSE IF c = Ord("]") THEN {handle_desc_end(self, c)}
    ELSE IF c = Ord("(") THEN {handle_addr_start(self, c)}
    ELSE IF c = Ord(")") THEN handle_addr_end(self, c)
    ELSE {handle_data(self, c)}

\* close without its second part: the address buffer is not put back
close_desc_only(self) ==
    [self EXCEPT
        !.results = IF self.descBuffer # <<>>
                    THEN extend(Append(self.results, <<Ord("[")>>), self.descBuffer)
                    ELSE self.results,
        !.descBuffer = <<>>,
        !.addrBuffer = <<>>]

\* close without lines 447 and 451: the buffers are not cleared
close_buffers_kept(self) ==
    LET flushed == IF self.descBuffer # <<>>
                   THEN extend(Append(self.results, <<Ord("[")>>), self.descBuffer)
                   ELSE self.results
    IN  [self EXCEPT
            !.results = IF self.addrBuffer # <<>>
                        THEN extend(Append(flushed, <<Ord("]"), Ord("(")>>), self.addrBuffer)
                        ELSE flushed]

close(self) ==
    LET flushed == IF self.descBuffer # <<>>
                   THEN extend(Append(self.results, <<Ord("[")>>), self.descBuffer)
                   ELSE self.results
    IN  [self EXCEPT
            !.results = IF self.addrBuffer # <<>>
                        THEN extend(Append(flushed, <<Ord("]"), Ord("(")>>), self.addrBuffer)
                        ELSE flushed,
            !.descBuffer = <<>>,
            !.addrBuffer = <<>>]

\* feed(data) from each instance of selves: the instances it can leave; an
\* instance whose handler raised is left as it is
RECURSIVE feed(_, _)
feed(selves, chars) ==
    IF chars = <<>> THEN selves
    ELSE feed(UNION {IF self.exc THEN {self} ELSE markup(self, Head(chars)) : self \in selves},
              Tail(chars))

\* what a caller of to_wikilinks sees instead of a result when it raises
ValueError == <<-2>>

\* the results to_wikilinks(t) can have on the instance self
to_wikilinks(self, t) ==
    {IF fed.exc THEN ValueError ELSE join(close(fed).results) : fed \in feed({reset(self)}, t)}

----------------------------------------------------------------------------------------------------------------------------------------
(* The caller and the parser, one character a step *)

\* no to_wikilinks call has returned
NoRet == <<-1>>

\* the strings over chars with at most n characters
StrUpTo(chars, n) == UNION {[1..k -> chars] : k \in 0..n}

\* what a call finds in the instance: its state, and which buffers hold text
Found(self) ==
    [state |-> self.state, desc |-> self.descBuffer # <<>>, addr |-> self.addrBuffer # <<>>]

\* main() is not called: the module is imported and the caller uses the
\* class MdLinkParser by itself
NoDriver ==
    /\ files = <<>>
    /\ attrs = [RENAME_PAGES |-> TRUE, REMOVE_FIRST_LINE |-> TRUE,
                CHANGE_MARKDOWN_STYLE |-> TRUE]
    /\ args = <<>>
    /\ phase = "none"
    /\ locals = <<>>
    /\ log = {}

\* a new instance, and a caller that is going to make n calls
NewCaller(n) ==
    /\ results = NewParser.results
    /\ descBuffer = NewParser.descBuffer
    /\ addrBuffer = NewParser.addrBuffer
    /\ state = NewParser.state
    /\ pc = "idle"
    /\ op = "none"
    /\ data = <<>>
    /\ text = <<>>
    /\ ret = NoRet
    /\ calls = n
    /\ before = Found(NewParser)

\* a caller that uses the class by itself
InitCaller(n) ==
    /\ NewCaller(n)
    /\ NoDriver

Install(self) ==
    /\ results' = self.results
    /\ descBuffer' = self.descBuffer
    /\ addrBuffer' = self.addrBuffer
    /\ state' = self.state

\* the caller makes its next call when no call is running: after a return,
\* or after it caught the exception of the call before
CanCall ==
    /\ pc \in {"idle", "raised"}
    /\ calls > 0

\* to_wikilinks(t), lines 347-348: reset(), then feed(t) starts its loop
ToWikilinks(t) ==
    /\ CanCall
    /\ Install(reset(Self))
    /\ pc' = "feed"
    /\ op' = "to_wikilinks"
    /\ data' = t
    /\ text' = t
    /\ ret' = NoRet
    /\ calls' = calls - 1
    /\ before' = Found(Self)
    /\ UNCHANGED driverVars

\* line 362: one turn of the loop of feed; an exception of the handler ends
\* the call and leaves the instance as it was
FeedChar ==
    /\ pc = "feed"
    /\ data # <<>>
    /\ \E next \in markup(Self, Head(data)) :
          /\ Install(next)
          /\ pc' = IF next.exc THEN "raised" ELSE "feed"
    /\ data' = Tail(data)
    /\ UNCHANGED <<op, text, ret, calls, before>>
    /\ UNCHANGED driverVars

\* lines 349-350: feed is through, close() and return ''.join(self.results)
Return ==
    /\ pc = "feed"
    /\ data = <<>>
    /\ op = "to_wikilinks"
    /\ Install(close(Self))
    /\ ret' = join(close(Self).results)
    /\ pc' = "idle"
    /\ UNCHANGED <<op, data, text, calls, before>>
    /\ UNCHANGED driverVars

----------------------------------------------------------------------------
(* Texts with any characters *)

MaxLen == 5

FreeChar == Markup \cup {Ord("A"), Ord("\n"), Ord("%"), Ord(":")}

NextFree ==
    \/ CanCall /\ \E t \in StrUpTo(FreeChar, MaxLen) : ToWikilinks(t)
    \/ FeedChar
    \/ Return

SpecFree == InitCaller(1) /\ [][NextFree]_vars

\* a to_wikilinks call has returned
Returned == pc = "idle" /\ op = "to_wikilinks" /\ ret # NoRet

Last(s) == s[Len(s)]

LinkFree(t) == Range(t) \cap Markup = {}

\* C1: a text without '[', ']', '(' and ')' is returned unchanged, and while it
\* is converted the parser is in BODY with both buffers empty after every
\* character
C1_LinkFreeIdentity ==
    (op = "to_wikilinks" /\ LinkFree(text)) =>
        /\ state = BODY
        /\ descBuffer = <<>>
        /\ addrBuffer = <<>>
        /\ pc # "raised"
        /\ pc = "idle" => ret = text

C1_Witness ==
    /\ Returned
    /\ LinkFree(text)
    /\ Len(text) >= 3
    /\ {Ord("%"), Ord(":"), Ord("\n")} \subseteq Range(text)
    /\ ret = text

\* the text of the link the parser is inside of, as it was read
Unterminated ==
    IF state = DESC THEN <<Ord("[")>> \o descBuffer
    ELSE IF state = LINK THEN <<Ord("[")>> \o descBuffer \o <<Ord("]")>>
    ELSE IF state = ADDRESS THEN <<Ord("[")>> \o descBuffer \o <<Ord("]"), Ord("(")>> \o addrBuffer
    ELSE <<>>

\* C5: when the input ends inside a link (state DESC, LINK or ADDRESS),
\* close() puts the whole text of that link back: the returned string is what
\* was emitted before, followed by the unterminated link as it was read
C5_TruncatedLinkPreserved ==
    [][Return => ret' = join(results) \o Unterminated]_vars

----------------------------------------------------------------------------
(* Texts that are one link, '[' + D + '](' + A + ')' *)

MaxDesc == 1
MaxAddr == 4

DescChar == {Ord(":"), Ord("(")}

AddrChar == {Ord("E"), Ord(":"), Ord("."), Ord("/"), Ord("%"), Ord("2"), Ord("[")}

\* what follows the scheme of the addresses that are given one
MaxUrl == 3

Scheme == <<Ord("E"), Ord(":")>>

\* the descriptions of the links without address
MaxSynth == 4

SynthChar == {Ord("%"), Ord("3"), Ord("A"), Ord(":"), Ord("["), Ord("(")}

Link(D, A) == <<Ord("[")>> \o D \o <<Ord("]"), Ord("(")>> \o A \o <<Ord(")")>>

\* the caller converts a link with an address, with an address that has a
\* scheme, or without address
NextLink ==
    \/ CanCall /\ \E D \in StrUpTo(DescChar, MaxDesc), A \in StrUpTo(AddrChar, MaxAddr) :
          ToWikilinks(Link(D, A))
    \/ CanCall /\ \E D \in StrUpTo(DescChar, MaxDesc), A \in StrUpTo(AddrChar, MaxUrl) :
          ToWikilinks(Link(D, Scheme \o A))
    \/ CanCall /\ \E D \in StrUpTo(SynthChar, MaxSynth) :
          ToWikilinks(Link(D, <<>>))
    \/ FeedChar
    \/ Return

SpecLink == InitCaller(1) /\ [][NextLink]_vars

\* the D and the A of a text '[' + D + '](' + A + ')' whose D has no ']'
DescEnd(t) == Find(t, {Ord("]")}, 1)
DescOf(t) == SubSeq(t, 2, DescEnd(t) - 1)
AddrOf(t) == SubSeq(t, DescEnd(t) + 2, Len(t) - 1)

\* t is '[' + D + '](' + A + ')' with no ']' in D and no ')' in A
IsLink(t) ==
    /\ Len(t) >= 4
    /\ t[1] = Ord("[")
    /\ DescEnd(t) > 0
    /\ DescEnd(t) + 1 < Len(t)
    /\ t[DescEnd(t) + 1] = Ord("(")
    /\ t[Len(t)] = Ord(")")
    /\ Ord(")") \notin Range(AddrOf(t))

\* the address has a URL scheme
HasScheme(A) == SchemeEnd(CleanUrl(A)) > 0

\* the to_wikilinks call is over: it returned or it raised
Over == op = "to_wikilinks" /\ pc \in {"idle", "raised"}

\* C2: a link whose non-empty address is recognised as having a URL scheme is
\* returned exactly as it was read
C2_ExternalLinkUnchanged ==
    (Returned /\ IsLink(text) /\ AddrOf(text) # <<>> /\ "url" \in urlparse(AddrOf(text))) =>
        ret = text

\* an external link whose address holds a percent escape: it is not decoded
C2_Witness ==
    /\ Returned
    /\ IsLink(text)
    /\ "url" \in urlparse(AddrOf(text))
    /\ unquote(AddrOf(text)) # AddrOf(text)
    /\ DescOf(text) # <<>>
    /\ ret = text

\* the wikilink of address A and description D
Wikilink(A, D) ==
    <<Ord("["), Ord("[")>> \o A
        \o (IF D = <<>> THEN <<>> ELSE <<Ord("|")>> \o D)
        \o <<Ord("]"), Ord("]")>>

\* C3: a link whose non-empty address has no URL scheme becomes the wikilink of
\* the address, one leading './' removed and then percent-decoded, and of the
\* unmodified description
C3_InternalLink ==
    (Over /\ IsLink(text) /\ AddrOf(text) # <<>> /\ ~HasScheme(AddrOf(text))) =>
        ret = Wikilink(unquote(removeprefix(AddrOf(text), <<Ord("."), Ord("/")>>)),
                       DescOf(text))

\* C3, for the addresses urlparse accepts
C3_InternalLinkParsed ==
    (Returned /\ IsLink(text) /\ AddrOf(text) # <<>> /\ ~HasScheme(AddrOf(text))) =>
        ret = Wikilink(unquote(removeprefix(AddrOf(text), <<Ord("."), Ord("/")>>)),
                       DescOf(text))

\* C6: to_wikilinks never raises
C6_NeverRaises == pc # "raised"

\* C4: a link with an empty address becomes the wikilink of its description,
\* every ':' replaced by '/' and then percent-decoded, without a '|description'
C4_DescBecomesAddress ==
    (Returned /\ IsLink(text) /\ AddrOf(text) = <<>>) =>
        ret = Wikilink(unquote(Replace(DescOf(text), Ord(":"), Ord("/"))), <<>>)

\* a description with a ':' to replace and a ':' that only decoding brings
C4_Witness ==
    /\ Returned
    /\ IsLink(text)
    /\ AddrOf(text) = <<>>
    /\ Ord(":") \in Range(DescOf(text))
    /\ Ord(":") \in Range(ret)
    /\ Ord("/") \in Range(ret)

----------------------------------------------------------------------------
(* Texts made of segments: delimiter-free text, and links whose description *)
(* and address are delimiter-free                                           *)

MaxSegs == 3

SegDescs == {<<>>, <<Ord("E")>>, <<Ord(":")>>}

SegAddrs == {<<>>, <<Ord("E")>>, <<Ord("E"), Ord(":")>>, <<Ord("%"), Ord("2"), Ord("E")>>}

Segments ==
    {<<Ord("E")>>, <<Ord(":"), Ord("\n")>>}
        \cup {Link(D, A) : D \in SegDescs, A \in SegAddrs}

\* the concatenation of the strings of seq
RECURSIVE Flatten(_)
Flatten(seq) == IF seq = <<>> THEN <<>> ELSE Head(seq) \o Flatten(Tail(seq))

NextSeg ==
    \/ CanCall /\ \E n \in 1..MaxSegs : \E segs \in [1..n -> Segments] :
          ToWikilinks(Flatten(segs))
    \/ FeedChar
    \/ Return

SpecSeg == InitCaller(1) /\ [][NextSeg]_vars

\* s is a segment: delimiter-free text, or a link '[D](A)' with D and A
\* delimiter-free
IsSegment(s) ==
    \/ s # <<>> /\ LinkFree(s)
    \/ IsLink(s) /\ LinkFree(DescOf(s)) /\ LinkFree(AddrOf(s))

\* the ways to cut t into segments
RECURSIVE Segmentations(_)
Segmentations(t) ==
    IF t = <<>> THEN {<<>>}
    ELSE UNION {{<<SubSeq(t, 1, k)>> \o rest : rest \in Segmentations(Drop(t, k))} :
                    k \in {j \in 1..Len(t) : IsSegment(SubSeq(t, 1, j))}}

\* the results of converting every segment by a to_wikilinks call of its own,
\* concatenated
RECURSIVE ConvertEach(_)
ConvertEach(segs) ==
    IF segs = <<>> THEN {<<>>}
    ELSE {first \o rest : first \in to_wikilinks(NewParser, Head(segs)),
                          rest \in ConvertEach(Tail(segs))}

\* C7: the conversion of a text made of segments is the concatenation of the
\* conversions of the segments, however the text is cut into segments
C7_SegmentsConvertAlone ==
    Returned => \A segs \in Segmentations(text) : ConvertEach(segs) = {ret}

\* two links with nothing between them, followed by text
C7_Witness ==
    /\ Returned
    /\ \E segs \in Segmentations(text) :
          /\ Len(segs) = 3
          /\ IsLink(segs[1]) /\ DescOf(segs[1]) # <<>> /\ AddrOf(segs[1]) # <<>>
          /\ IsLink(segs[2]) /\ DescOf(segs[2]) # <<>> /\ "url" \in urlparse(AddrOf(segs[2]))
          /\ LinkFree(segs[3])
          /\ ConvertEach(segs) = {ret}
    /\ ret # text

----------------------------------------------------------------------------
(* Texts that hold a wikilink between delimiter-free text *)

MaxInner == 3
MaxAround == 1

WikiChar == {Ord("E"), Ord("|"), Ord("%")}

NextWiki ==
    \/ CanCall /\ \E inner \in StrUpTo(WikiChar, MaxInner) :
          \E head \in StrUpTo(WikiChar, MaxAround), tail \in StrUpTo(WikiChar, MaxAround) :
             ToWikilinks(head \o <<Ord("["), Ord("[")>> \o inner
                             \o <<Ord("]"), Ord("]")>> \o tail)
    \/ FeedChar
    \/ Return

SpecWiki == InitCaller(1) /\ [][NextWiki]_vars

\* t is delimiter-free but for one '[[' and, later, one ']]'
IsWikiText(t) ==
    \E i, j \in 1..Len(t) :
        /\ i + 1 < j
        /\ j + 1 <= Len(t)
        /\ {k \in 1..Len(t) : t[k] \in Markup} = {i, i + 1, j, j + 1}
        /\ t[i] = Ord("[") /\ t[i + 1] = Ord("[")
        /\ t[j] = Ord("]") /\ t[j + 1] = Ord("]")

\* C8: a text that holds a wikilink '[[A]]' or '[[A|D]]' between delimiter-free
\* text is returned unchanged
C8_WikilinkUnchanged ==
    (Returned /\ IsWikiText(text)) => ret = text

\* a wikilink '[[A|D]]' with text before and after it
C8_Witness ==
    /\ Returned
    /\ IsWikiText(text)
    /\ text[1] # Ord("[")
    /\ Last(text) # Ord("]")
    /\ \E k \in 4..(Len(text) - 4) :
          text[k] = Ord("|") /\ text[k - 1] = Ord("E") /\ text[k + 1] = Ord("E")
    /\ ret = text

----------------------------------------------------------------------------
(* A caller that uses one instance for several calls of the public methods *)

\* feed(d), called by the caller itself: the loop starts
Feed(d) ==
    /\ CanCall
    /\ pc' = "feed"
    /\ op' = "feed"
    /\ data' = d
    /\ calls' = calls - 1
    /\ UNCHANGED <<results, descBuffer, addrBuffer, state, text, ret, before>>
    /\ UNCHANGED driverVars

\* the loop of a feed call of the caller is through
FeedReturn ==
    /\ pc = "feed"
    /\ data = <<>>
    /\ op = "feed"
    /\ pc' = "idle"
    /\ UNCHANGED <<results, descBuffer, addrBuffer, state, op, data, text, ret, calls, before>>
    /\ UNCHANGED driverVars

\* close(), called by the caller itself
Close ==
    /\ CanCall
    /\ Install(close(Self))
    /\ pc' = "idle"
    /\ op' = "close"
    /\ calls' = calls - 1
    /\ UNCHANGED <<data, text, ret, before>>
    /\ UNCHANGED driverVars

\* reset(), called by the caller itself
Reset ==
    /\ CanCall
    /\ Install(reset(Self))
    /\ pc' = "idle"
    /\ op' = "reset"
    /\ calls' = calls - 1
    /\ UNCHANGED <<data, text, ret, before>>
    /\ UNCHANGED driverVars

MaxCalls == 3
MaxReuse == 3

ReuseChar == Markup \cup {Ord("E")}

\* texts that end inside a link, a link, and a link urlparse raises on
ReuseLinks ==
    {<<Ord("[")>> \o D \o <<Ord("]"), Ord("(")>> \o A \o paren :
        D \in {<<>>, <<Ord("E")>>},
        A \in {<<Ord("E")>>, <<Ord("/"), Ord("/"), Ord("[")>>},
        paren \in {<<>>, <<Ord(")")>>}}

\* what the caller feeds by itself
FeedData == {<<Ord("E")>>, <<Ord("["), Ord("E")>>, <<Ord("]"), Ord("(")>>, <<Ord("E"), Ord(")")>>}

NextReuse ==
    \/ CanCall /\ \E t \in StrUpTo(ReuseChar, MaxReuse) \cup ReuseLinks : ToWikilinks(t)
    \/ \E d \in FeedData : Feed(d)
    \/ Close
    \/ Reset
    \/ FeedChar
    \/ FeedReturn
    \/ Return

SpecReuse == InitCaller(MaxCalls) /\ [][NextReuse]_vars

\* C10: whatever was called on the instance before, to_wikilinks(text) has a
\* result that it can have on a new instance: the same string, or the same
\* exception
C10_ResultOfTextOnly ==
    /\ Returned => ret \in to_wikilinks(NewParser, text)
    /\ (op = "to_wikilinks" /\ pc = "raised") => ValueError \in to_wikilinks(NewParser, text)

\* a link is converted by an instance that an earlier call left inside an
\* address, with both buffers filled
C10_Witness ==
    /\ Returned
    /\ before.state = ADDRESS
    /\ before.desc
    /\ before.addr
    /\ IsLink(text)
    /\ ret # text

----------------------------------------------------------------------------
(* A caller that streams a text: reset(), feed() piece after piece, close() *)

MaxStream == 4

StreamChar == Markup \cup {Ord("E"), Ord("/")}

\* the start of a link that urlparse raises on when '[' and ')' follow
StreamLinks == {<<Ord("["), Ord("]"), Ord("("), Ord("/"), Ord("/")>>}

\* what a piece takes from the budget of the caller
StreamCost(d) == IF d \in StreamLinks THEN 1 ELSE Len(d)

\* reset() at the start of a stream; text is what was fed since
StreamReset ==
    /\ CanCall
    /\ Install(reset(Self))
    /\ pc' = "idle"
    /\ op' = "reset"
    /\ text' = <<>>
    /\ calls' = calls - 1
    /\ UNCHANGED <<data, ret, before>>
    /\ UNCHANGED driverVars

\* StreamFeed with a feed that starts as to_wikilinks does, with reset()
StreamFeed_reset_first(d) ==
    /\ pc = "idle"
    /\ op # "close"
    /\ StreamCost(d) < calls
    /\ Install(reset(Self))
    /\ pc' = "feed"
    /\ op' = "feed"
    /\ data' = d
    /\ text' = text \o d
    /\ calls' = calls - StreamCost(d)
    /\ UNCHANGED <<ret, before>>
    /\ UNCHANGED driverVars

\* feed(d), the next piece of the stream: the loop starts on the instance as
\* the piece before left it
StreamFeed(d) ==
    /\ pc = "idle"
    /\ op # "close"
    /\ StreamCost(d) < calls
    /\ pc' = "feed"
    /\ op' = "feed"
    /\ data' = d
    /\ text' = text \o d
    /\ calls' = calls - StreamCost(d)
    /\ UNCHANGED <<results, descBuffer, addrBuffer, state, ret, before>>
    /\ UNCHANGED driverVars

\* close() at the end of the stream; a piece that raised has ended the
\* sequence of the caller before, and only a reset() starts a new one
StreamClose ==
    /\ pc = "idle"
    /\ Close

NextStream ==
    \/ StreamReset
    \/ pc = "idle" /\ \E d \in StrUpTo(StreamChar, calls - 1) \cup StreamLinks : StreamFeed(d)
    \/ FeedChar
    \/ FeedReturn
    \/ StreamClose

SpecStream == InitCaller(MaxStream + 1) /\ [][NextStream]_vars

\* the part of the stream that the parser has read
Consumed == SubSeq(text, 1, Len(text) - Len(data))

\* the instances that reset(); feed(t) can leave, with one feed call
FedAtOnce(t) == feed({reset(NewParser)}, t)

\* C11: the pieces fed after reset() leave what one feed of their
\* concatenation leaves, after every character and every piece, when a piece
\* raises, and after close()
C11_StreamedAsOne ==
    /\ (op \in {"feed", "reset"} /\ pc = "idle") => Self \in FedAtOnce(text)
    /\ (op = "feed" /\ pc = "feed") => Self \in FedAtOnce(Consumed)
    /\ (op = "feed" /\ pc = "raised") => [Self EXCEPT !.exc = TRUE] \in FedAtOnce(text)
    /\ op = "close" =>
          Self \in {close(fed) : fed \in {f \in FedAtOnce(text) : ~f.exc}}

\* a link without its ')' was streamed and closed inside the address
C11_Witness ==
    /\ op = "close"
    /\ calls = 0
    /\ text = <<Ord("["), Ord("E"), Ord("]"), Ord("(")>>
    /\ state = ADDRESS
    /\ join(results) = <<Ord("["), Ord("E")>>

----------------------------------------------------------------------------
(* What becomes of the characters that are no delimiters *)

\* s without '[', ']', '(' and ')'
NonDelims(s) == SelectSeq(s, LAMBDA c : c \notin Markup)

\* the characters other than delimiters that the instance holds, in the order
\* close() emits them
Held == NonDelims(join(results)) \o NonDelims(descBuffer) \o NonDelims(addrBuffer)

IsPrefix(p, s) == Len(p) <= Len(s) /\ SubSeq(s, 1, Len(p)) = p

IsSuffix(p, s) == Len(p) <= Len(s) /\ SubSeq(s, Len(s) - Len(p) + 1, Len(s)) = p

\* this step of feed is a ')' that makes a wikilink of the link it ends
RewritesLink ==
    /\ state = ADDRESS
    /\ Head(data) = Ord(")")
    /\ pc' # "raised"
    /\ ~(addrBuffer # <<>> /\ results' = RestoreLink(Self))

----------------------------------------------------------------------------
(* Strings and files of the procedures that main() runs *)

\* str.endswith
EndsWith(s, suffix) ==
    /\ Len(s) >= Len(suffix)
    /\ SubSeq(s, Len(s) - Len(suffix) + 1, Len(s)) = suffix

\* str.find(sub, start): the first index >= start where sub stands, 0 if none
FindStr(s, sub, start) ==
    LET hits == {i \in start..(Len(s) - Len(sub) + 1) : SubSeq(s, i, i + Len(sub) - 1) = sub}
    IN  IF hits = {} THEN 0 ELSE CHOOSE i \in hits : \A j \in hits : i <= j

\* str.rfind(sub): the last index where sub stands, 0 if none
RFindStr(s, sub) ==
    LET hits == {i \in 1..(Len(s) - Len(sub) + 1) : SubSeq(s, i, i + Len(sub) - 1) = sub}
    IN  IF hits = {} THEN 0 ELSE CHOOSE i \in hits : \A j \in hits : i >= j

\* sub in s
Contains(s, sub) == FindStr(s, sub, 1) > 0

\* str.replace(old, new) for a non-empty string old: the occurrences from the
\* left that do not overlap
RECURSIVE ReplaceStr(_, _, _)
ReplaceStr(s, old, new) ==
    LET i == FindStr(s, old, 1)
    IN  IF i = 0 THEN s
        ELSE SubSeq(s, 1, i - 1) \o new \o ReplaceStr(Drop(s, i + Len(old) - 1), old, new)

\* str.split(sep) for a single character sep
RECURSIVE SplitAt(_, _)
SplitAt(s, sep) ==
    LET i == Find(s, {sep}, 1)
    IN  IF i = 0 THEN <<s>>
        ELSE <<SubSeq(s, 1, i - 1)>> \o SplitAt(Drop(s, i), sep)

\* sep.join(parts) for a single character sep
RECURSIVE JoinWith(_, _)
JoinWith(parts, sep) ==
    IF parts = <<>> THEN <<>>
    ELSE IF Len(parts) = 1 THEN parts[1]
    ELSE parts[1] \o <<sep>> \o JoinWith(Tail(parts), sep)

\* f.readlines(): the lines of a text, each with the '\n' that ends it
RECURSIVE readlines(_)
readlines(s) ==
    LET i == Find(s, {Ord("\n")}, 1)
    IN  IF s = <<>> THEN <<>>
        ELSE IF i = 0 THEN <<s>>
        ELSE <<SubSeq(s, 1, i)>> \o readlines(Drop(s, i))

\* the characters str.strip() removes
Whitespace == {9, 10, 11, 12, 13, 28, 29, 30, 31, 32, 133, 160}

\* str.rstrip()
RECURSIVE RStrip(_, _)
RStrip(s, cs) ==
    IF s # <<>> /\ s[Len(s)] \in cs THEN RStrip(SubSeq(s, 1, Len(s) - 1), cs) ELSE s

\* str.strip()
Strip(s) == RStrip(LStrip(s, Whitespace), Whitespace)

MdExtension == <<Ord("."), Ord("m"), Ord("d")>>

\* os.path.split(path)[0], followed by '/' when it is not empty (lines 118-120)
NoteDir(path) ==
    LET i == RFindStr(path, <<Ord("/")>>)
    IN  IF i = 0 THEN <<>>
        ELSE IF RStrip(SubSeq(path, 1, i), {Ord("/")}) = <<>> THEN SubSeq(path, 1, i) \o <<Ord("/")>>
        ELSE RStrip(SubSeq(path, 1, i), {Ord("/")}) \o <<Ord("/")>>

\* os.path.split(path)[1]
Basename(path) == Drop(path, RFindStr(path, <<Ord("/")>>))

\* glob._ishidden for every part of the path
IsHidden(path) == \E part \in Range(SplitAt(path, Ord("/"))) : part # <<>> /\ part[1] = Ord(".")

\* glob.iglob('**/*.md', recursive=True): the files a procedure loops through
Glob(fs) == {path \in DOMAIN fs : EndsWith(path, MdExtension) /\ ~IsHidden(path)}

\* os.path.exists(path): a file, or a directory that holds a file
Exists(fs, path) ==
    \/ path \in DOMAIN fs
    \/ \E other \in DOMAIN fs : StartsWith(other, path \o <<Ord("/")>>)

\* the directory with the file path written (created or overwritten)
WriteFile(fs, path, content) ==
    [q \in DOMAIN fs \cup {path} |-> IF q = path THEN content ELSE fs[q]]

\* os.rename(path, newPath), newPath not existing
RenameFile(fs, path, newPath) ==
    [q \in (DOMAIN fs \ {path}) \cup {newPath} |-> IF q = newPath THEN fs[path] ELSE fs[q]]

\* the files of todo that the loop can take next: glob lists the root
\* directory first and every directory as a whole
NextFiles(todo, last) ==
    LET here == {path \in todo : NoteDir(path) = NoteDir(last)}
        root == {path \in todo : NoteDir(path) = <<>>}
    IN  IF here # {} THEN here ELSE IF root # {} THEN root ELSE todo

\* the variables of the class MdLinkParser and of a caller that uses it by itself
callerVars == <<results, descBuffer, addrBuffer, state, pc, op, data, text, ret, calls, before>>

----------------------------------------------------------------------------
(* The if statements of main() *)

\* the if statements of main(), lines 485-492, in their order, and what follows
MainSteps ==
    <<"if RENAME_PAGES", "if REMOVE_FIRST_LINE", "if CHANGE_MARKDOWN_STYLE", "if wikilinks",
      "print Done">>

\* MainCondition with a last if statement that tests nothing: reformat_links
\* is run whatever the argument wikilinks is
MainCondition_wikilinks_ignored(step) ==
    CASE step = 1 -> attrs.RENAME_PAGES
      [] step = 2 -> attrs.REMOVE_FIRST_LINE
      [] step = 3 -> attrs.CHANGE_MARKDOWN_STYLE
      [] step = 4 -> TRUE

\* the condition of the if statement step
MainCondition(step) ==
    CASE step = 1 -> attrs.RENAME_PAGES
      [] step = 2 -> attrs.REMOVE_FIRST_LINE
      [] step = 3 -> attrs.CHANGE_MARKDOWN_STYLE
      [] step = 4 -> args.wikilinks

----------------------------------------------------------------------------
(* rename_pages *)

\* FORBIDDEN_CHARACTERS; 92 is the backslash
ForbiddenCharacters ==
    {92, Ord("/"), Ord(":"), Ord("*"), Ord("?"), Ord("\""), Ord("<"), Ord(">"), Ord("|")}

HeadingMark == <<Ord("#"), Ord(" ")>>

\* lines 124-130: the file name that the heading of the page gives
NewName(firstLine) == Remove(Strip(Drop(firstLine, 2)) \o MdExtension, ForbiddenCharacters)

\* noteNames[key] = value: a new key comes last, a key that is there keeps its place
SetItem(dict, key, value) ==
    IF \E i \in 1..Len(dict) : dict[i][1] = key
    THEN [i \in 1..Len(dict) |-> IF dict[i][1] = key THEN <<key, value>> ELSE dict[i]]
    ELSE Append(dict, <<key, value>>)

\* the characters urllib.parse.quote leaves as they are
QuoteSafe ==
    (Ord("A")..Ord("Z")) \cup (Ord("a")..Ord("z")) \cup (Ord("0")..Ord("9"))
        \cup {Ord("_"), Ord("."), Ord("-"), Ord("~"), Ord("/")}

\* the UTF-8 bytes of a character
Utf8Encode(c) ==
    IF c < 128 THEN <<c>>
    ELSE IF c < 2048 THEN <<192 + (c \div 64), 128 + (c % 64)>>
    ELSE IF c < 65536 THEN <<224 + (c \div 4096), 128 + ((c \div 64) % 64), 128 + (c % 64)>>
    ELSE <<240 + (c \div 262144), 128 + ((c \div 4096) % 64),
           128 + ((c \div 64) % 64), 128 + (c % 64)>>

\* the upper case hexadecimal digit of n
HexDigit(n) == IF n < 10 THEN Ord("0") + n ELSE Ord("A") + (n - 10)

\* '%XX' for a byte
QuoteByte(b) == <<Ord("%"), HexDigit(b \div 16), HexDigit(b % 16)>>

RECURSIVE QuoteBytes(_)
QuoteBytes(bytes) ==
    IF bytes = <<>> THEN <<>> ELSE QuoteByte(Head(bytes)) \o QuoteBytes(Tail(bytes))

\* urllib.request.pathname2url(pathname), which is urllib.parse.quote(pathname)
RECURSIVE pathname2url(_)
pathname2url(pathname) ==
    IF pathname = <<>> THEN <<>>
    ELSE (IF Head(pathname) \in QuoteSafe THEN <<Head(pathname)>>
          ELSE QuoteBytes(Utf8Encode(Head(pathname))))
         \o pathname2url(Tail(pathname))

LinkMark == <<Ord("]"), Ord("(")>>

\* the group that re.findall(r'\[.+(\]\(.*NAME\))', line) gives for a line
\* without '\n', <<>> if the line has no match: the match starts at the first
\* '[', '.+' takes the last '](' that leaves room for the rest, and '.*' all
\* up to the last 'NAME)'
MatchedLink(line, noteName) ==
    LET first == Find(line, {Ord("[")}, 1)
        last == RFindStr(line, noteName \o <<Ord(")")>>)
        starts == {j \in (first + 2)..(last - 2) : SubSeq(line, j, j + 1) = LinkMark}
    IN  IF first = 0 \/ last = 0 \/ starts = {} THEN <<>>
        ELSE SubSeq(line, CHOOSE j \in starts : \A k \in starts : j >= k,
                    last + Len(noteName))

\* re.findall(...) on the page: one match a line at most
FindLinks(page, noteName) ==
    SelectSeq([i \in 1..Len(SplitAt(page, Ord("\n"))) |->
                  MatchedLink(SplitAt(page, Ord("\n"))[i], noteName)],
              LAMBDA link : link # <<>>)

\* line 154: the link with the old name replaced by the new one
NewLink(oldLink, noteName, newName) ==
    ReplaceStr(ReplaceStr(oldLink, noteName, pathname2url(newName)),
               <<Ord("]"), Ord("("), Ord("."), Ord("/")>>, LinkMark)

\* lines 153-157: the loop over the links found for one note name
RECURSIVE ReplaceLinks(_, _, _, _)
ReplaceLinks(page, links, noteName, newName) ==
    IF links = <<>> THEN page
    ELSE ReplaceLinks(ReplaceStr(page, Head(links), NewLink(Head(links), noteName, newName)),
                      Tail(links), noteName, newName)

\* lines 150-157: the page after the loop over noteNames
RECURSIVE AdjustedPage(_, _)
AdjustedPage(page, noteNames) ==
    IF noteNames = <<>> THEN page
    ELSE AdjustedPage(ReplaceLinks(page, FindLinks(page, noteNames[1][1]),
                                   noteNames[1][1], noteNames[1][2]),
                      Tail(noteNames))

\* hasChanged after the loop over noteNames
RECURSIVE HasChanged(_, _)
HasChanged(page, noteNames) ==
    IF noteNames = <<>> THEN FALSE
    ELSE \/ FindLinks(page, noteNames[1][1]) # <<>>
         \/ HasChanged(ReplaceLinks(page, FindLinks(page, noteNames[1][1]),
                                    noteNames[1][1], noteNames[1][2]),
                       Tail(noteNames))

\* lines 103-113: main() calls rename_pages(), the first loop starts
RenamePagesStart ==
    /\ phase = "if RENAME_PAGES"
    /\ MainCondition(1)
    /\ phase' = "rename_pages: first run"
    /\ locals' = [todo |-> Glob(files), last |-> <<>>, noteNames |-> <<>>]
    /\ UNCHANGED <<files, attrs, args, log>>
    /\ UNCHANGED callerVars

\* lines 117-140: the first loop takes a page and renames it
RenamePage ==
    /\ phase = "rename_pages: first run"
    /\ \E noteFile \in NextFiles(locals.todo, locals.last) :
          LET noteDir == NoteDir(noteFile)
              oldName == Basename(noteFile)
              lines == readlines(files[noteFile])
              newName == NewName(lines[1])
              newFile == noteDir \o newName
              rest == [locals EXCEPT !.todo = @ \ {noteFile}, !.last = noteFile]
          IN  IF lines # <<>> /\ StartsWith(lines[1], HeadingMark) /\ newName # oldName
              THEN IF ~Exists(files, newFile)
                   THEN /\ files' = RenameFile(files, noteFile, newFile)
                        /\ locals' = [rest EXCEPT !.noteNames = SetItem(@, oldName, newName)]
                        /\ log' = log \cup {<<"Renaming", noteFile, newFile>>}
                   ELSE /\ log' = log \cup {<<"Cannot rename", noteFile, newFile>>}
                        /\ locals' = rest
                        /\ UNCHANGED files
              ELSE /\ locals' = rest
                   /\ UNCHANGED <<files, log>>
    /\ UNCHANGED <<attrs, args, phase>>
    /\ UNCHANGED callerVars

\* line 145: the first loop is through, the second one starts
SecondRunStart ==
    /\ phase = "rename_pages: first run"
    /\ locals.todo = {}
    /\ phase' = "rename_pages: second run"
    /\ locals' = [locals EXCEPT !.todo = Glob(files), !.last = <<>>]
    /\ UNCHANGED <<files, attrs, args, log>>
    /\ UNCHANGED callerVars

\* lines 145-160: the second loop takes a page and adjusts its links
AdjustLinks ==
    /\ phase = "rename_pages: second run"
    /\ \E noteFile \in NextFiles(locals.todo, locals.last) :
          /\ locals' = [locals EXCEPT !.todo = @ \ {noteFile}, !.last = noteFile]
          /\ files' = IF HasChanged(files[noteFile], locals.noteNames)
                      THEN WriteFile(files, noteFile,
                                     AdjustedPage(files[noteFile], locals.noteNames))
                      ELSE files
          /\ log' = log \cup {<<"Adjusting links", noteFile>>}
    /\ UNCHANGED <<attrs, args, phase>>
    /\ UNCHANGED callerVars

\* RenamePagesReturn from inside the second loop: rename_pages returns after
\* any page
RenamePagesReturn_unfinished ==
    /\ phase = "rename_pages: second run"
    /\ phase' = "if REMOVE_FIRST_LINE"
    /\ locals' = <<>>
    /\ UNCHANGED <<files, attrs, args, log>>
    /\ UNCHANGED callerVars

\* rename_pages returns
RenamePagesReturn ==
    /\ phase = "rename_pages: second run"
    /\ locals.todo = {}
    /\ phase' = "if REMOVE_FIRST_LINE"
    /\ locals' = <<>>
    /\ UNCHANGED <<files, attrs, args, log>>
    /\ UNCHANGED callerVars

----------------------------------------------------------------------------
(* remove_first_line *)

\* line 163: main() calls remove_first_line(), the loop starts
RemoveFirstLineStart ==
    /\ phase = "if REMOVE_FIRST_LINE"
    /\ MainCondition(2)
    /\ phase' = "remove_first_line"
    /\ locals' = [todo |-> Glob(files), last |-> <<>>]
    /\ UNCHANGED <<files, attrs, args, log>>
    /\ UNCHANGED callerVars

\* lines 166-173: the loop takes a page and writes it without its first line
RemoveFirstLine ==
    /\ phase = "remove_first_line"
    /\ \E noteFile \in NextFiles(locals.todo, locals.last) :
          /\ locals' = [locals EXCEPT !.todo = @ \ {noteFile}, !.last = noteFile]
          /\ files' = IF readlines(files[noteFile]) # <<>>
                      THEN WriteFile(files, noteFile, join(Tail(readlines(files[noteFile]))))
                      ELSE files
          /\ log' = log \cup {<<"Removing the first line", noteFile>>}
    /\ UNCHANGED <<attrs, args, phase>>
    /\ UNCHANGED callerVars

\* remove_first_line returns
RemoveFirstLineReturn ==
    /\ phase = "remove_first_line"
    /\ locals.todo = {}
    /\ phase' = "if CHANGE_MARKDOWN_STYLE"
    /\ locals' = <<>>
    /\ UNCHANGED <<files, attrs, args, log>>
    /\ UNCHANGED callerVars

----------------------------------------------------------------------------
(* change_md_style *)

\* CODE_BLOCK_MARKER, three backticks
CodeBlockMarker == <<96, 96, 96>>

\* INLINE_CODE_MARKER, a backtick
InlineCodeMarker == 96

\* the characters that \s of a regular expression matches
RegexSpace == Whitespace

\* the characters that \w of a regular expression matches, of those below 128
WordChars ==
    (Ord("A")..Ord("Z")) \cup (Ord("a")..Ord("z")) \cup (Ord("0")..Ord("9")) \cup {Ord("_")}

\* the index of the ']' that ends the match of \[.*?\]\s which starts at the
\* '[' at index i, 0 if there is no match
BracketEnd(s, i) ==
    LET line == Find(s, {Ord("\n")}, i + 1)
        ends == {j \in (i + 1)..(Len(s) - 1) :
                    /\ s[j] = Ord("]")
                    /\ s[j + 1] \in RegexSpace
                    /\ (line = 0 \/ j < line)}
    IN  IF i > Len(s) \/ s[i] # Ord("[") \/ ends = {} THEN 0
        ELSE CHOOSE j \in ends : \A k \in ends : j <= k

\* line 207, re.sub(r'(\[.*?\]\s)', r'\\\1', text): a backslash (92) before
\* every '[...]' that white space follows
RECURSIVE EscapeBrackets(_)
EscapeBrackets(s) ==
    LET starts == {i \in 1..Len(s) : BracketEnd(s, i) > 0}
        i == CHOOSE k \in starts : \A m \in starts : k <= m
    IN  IF starts = {} THEN s
        ELSE SubSeq(s, 1, i - 1) \o <<92>> \o SubSeq(s, i, BracketEnd(s, i) + 1)
             \o EscapeBrackets(Drop(s, BracketEnd(s, i) + 1))

\* line 208, re.sub(r'\\\\(\[.*?\]\s)', r'\\\1', text): one of two backslashes
\* before such a '[...]' is removed
RECURSIVE UnescapeTwice(_)
UnescapeTwice(s) ==
    LET starts == {i \in 1..(Len(s) - 2) :
                      s[i] = 92 /\ s[i + 1] = 92 /\ BracketEnd(s, i + 2) > 0}
        i == CHOOSE k \in starts : \A m \in starts : k <= m
    IN  IF starts = {} THEN s
        ELSE SubSeq(s, 1, i - 1) \o SubSeq(s, i + 1, BracketEnd(s, i + 2) + 1)
             \o UnescapeTwice(Drop(s, BracketEnd(s, i + 2) + 1))

\* CHECKBOXES, in the order of the dictionary: Zim checkbox and the character
\* between the brackets of the Obsidian checkbox
Checkboxes ==
    <<<<9744, Ord(" ")>>, <<9745, Ord("x")>>, <<9746, Ord("c")>>,
      <<9655, Ord(">")>>, <<9665, Ord("<")>>>>

\* the number of '* ' that stand directly before index p
RECURSIVE BulletsBefore(_, _)
BulletsBefore(s, p) ==
    IF p > 2 /\ s[p - 2] = Ord("*") /\ s[p - 1] = Ord(" ")
    THEN 1 + BulletsBefore(s, p - 2)
    ELSE 0

\* line 213, re.sub(fr'(\* )*{c}', f'- {CHECKBOXES[c]}', text) for one checkbox
RECURSIVE ConvertCheckbox(_, _)
ConvertCheckbox(s, box) ==
    LET p == Find(s, {box[1]}, 1)
    IN  IF p = 0 THEN s
        ELSE SubSeq(s, 1, p - 1 - 2 * BulletsBefore(s, p))
             \o <<Ord("-"), Ord(" "), Ord("["), box[2], Ord("]")>>
             \o ConvertCheckbox(Drop(s, p), box)

\* lines 212-213: the loop over CHECKBOXES
RECURSIVE ConvertCheckboxes(_, _)
ConvertCheckboxes(s, boxes) ==
    IF boxes = <<>> THEN s
    ELSE ConvertCheckboxes(ConvertCheckbox(s, Head(boxes)), Tail(boxes))

\* the index of the '__' that ends the match of __(.+?)__ which starts at
\* index i, 0 if there is no match
HighlightEnd(s, i) ==
    LET line == Find(s, {Ord("\n")}, i + 2)
        ends == {j \in (i + 3)..(Len(s) - 1) :
                    /\ s[j] = Ord("_")
                    /\ s[j + 1] = Ord("_")
                    /\ (line = 0 \/ j < line)}
    IN  IF i + 1 > Len(s) \/ s[i] # Ord("_") \/ s[i + 1] # Ord("_") \/ ends = {} THEN 0
        ELSE CHOOSE j \in ends : \A k \in ends : j <= k

\* line 216, re.sub('__(.+?)__', '==\\1==', text)
RECURSIVE ConvertHighlighting(_)
ConvertHighlighting(s) ==
    LET starts == {i \in 1..Len(s) : HighlightEnd(s, i) > 0}
        i == CHOOSE k \in starts : \A m \in starts : k <= m
    IN  IF starts = {} THEN s
        ELSE SubSeq(s, 1, i - 1) \o <<Ord("="), Ord("=")>>
             \o SubSeq(s, i + 2, HighlightEnd(s, i) - 1) \o <<Ord("="), Ord("=")>>
             \o ConvertHighlighting(Drop(s, HighlightEnd(s, i) + 1))

\* line 221, re.sub(r'(\B)@{1}(\S+?)', '\\1#\\2', text), from index start on:
\* an '@' that no word character stands before and no white space behind
\* becomes '#', and the character behind it is passed
RECURSIVE ConvertTags(_, _)
ConvertTags(s, start) ==
    LET tags == {i \in start..(Len(s) - 1) :
                    /\ s[i] = Ord("@")
                    /\ (i = 1 \/ s[i - 1] \notin WordChars)
                    /\ s[i + 1] \notin RegexSpace}
        i == CHOOSE k \in tags : \A m \in tags : k <= m
    IN  IF tags = {} THEN s
        ELSE ConvertTags([s EXCEPT ![i] = Ord("#")], i + 2)

\* convert_md(text), lines 203-223
convert_md(chunk, preserveAt) ==
    LET escaped == UnescapeTwice(EscapeBrackets(chunk))
        boxed == ConvertCheckboxes(escaped, Checkboxes)
        lit == ConvertHighlighting(boxed)
    IN  IF ~preserveAt /\ Ord("@") \in Range(lit) THEN ConvertTags(lit, 1) ELSE lit

\* lines 273-284: the chunks of a line between backticks, every second one
\* (inline code) as it is, the others converted
ConvertChunks(line, preserveAt) ==
    LET chunks == SplitAt(line, InlineCodeMarker)
    IN  JoinWith([i \in 1..Len(chunks) |->
                     IF (i - 1) % 2 = 1 THEN chunks[i] ELSE convert_md(chunks[i], preserveAt)],
                 InlineCodeMarker)

\* line.startswith(c) and line.count(c) == len(line)
OnlyOf(line, c) == line # <<>> /\ Range(line) = {c}

\* previousLine = None
None == <<-3>>

\* the text an f-string gives for previousLine
FormatLine(previousLine) ==
    IF previousLine = None THEN <<Ord("N"), Ord("o"), Ord("n"), Ord("e")>> ELSE previousLine

\* newLines.append(previousLine) if previousLine is not None
Flushed(l) == IF l.previousLine # None THEN Append(l.newLines, l.previousLine) ELSE l.newLines

\* lines 238-308, one turn of the loop over the lines of a page: the local
\* variables after it
StyledLine(l, line, backticks, preserveAt) ==
    IF OnlyOf(line, Ord("="))
    THEN [l EXCEPT !.previousLine = <<Ord("#"), Ord(" ")>> \o FormatLine(@)]
    ELSE IF OnlyOf(line, Ord("-"))
    THEN [l EXCEPT !.previousLine = <<Ord("#"), Ord("#"), Ord(" ")>> \o FormatLine(@)]
    ELSE IF OnlyOf(line, Ord("*"))
    THEN [l EXCEPT !.newLines = Flushed(l),
                   !.previousLine = <<Ord("-"), Ord("-"), Ord("-")>>]
    ELSE IF backticks
    THEN LET isCodeblock == IF StartsWith(line, CodeBlockMarker)
                            THEN ~l.isCodeblock ELSE l.isCodeblock
         IN  [l EXCEPT !.isCodeblock = isCodeblock,
                       !.newLines = Flushed(l),
                       !.previousLine = IF ~isCodeblock
                                        THEN ConvertChunks(line, preserveAt) ELSE line]
    ELSE LET tab == StartsWith(line, <<Ord("\t")>>)
             marked == IF l.isCodeblock # tab
                       THEN Append(Flushed(l), CodeBlockMarker) ELSE Flushed(l)
         IN  [l EXCEPT !.isCodeblock = tab,
                       !.newLines = marked,
                       !.previousLine = IF ~tab THEN convert_md(line, preserveAt) ELSE line]

\* line 176: main() calls change_md_style(backticks, preserveAt), the loop
\* over the pages starts
ChangeMdStyleStart ==
    /\ phase = "if CHANGE_MARKDOWN_STYLE"
    /\ MainCondition(3)
    /\ phase' = "change_md_style"
    /\ locals' = [todo |-> Glob(files), last |-> <<>>]
    /\ UNCHANGED <<files, attrs, args, log>>
    /\ UNCHANGED callerVars

\* lines 226-236: the loop takes a page and reads its lines
StyleOpen ==
    /\ phase = "change_md_style"
    /\ \E noteFile \in NextFiles(locals.todo, locals.last) :
          /\ locals' = [todo |-> locals.todo \ {noteFile}, last |-> noteFile,
                        lines |-> SplitAt(files[noteFile], Ord("\n")),
                        newLines |-> <<>>, previousLine |-> None, isCodeblock |-> FALSE]
          /\ log' = log \cup {<<"Reformatting headings", noteFile>>}
    /\ phase' = "change_md_style: lines"
    /\ UNCHANGED <<files, attrs, args>>
    /\ UNCHANGED callerVars

\* lines 238-308: one turn of the loop over the lines
StyleLine ==
    /\ phase = "change_md_style: lines"
    /\ locals.lines # <<>>
    /\ locals' = [StyledLine(locals, Head(locals.lines), args.backticks, args.preserveAt)
                    EXCEPT !.lines = Tail(locals.lines)]
    /\ UNCHANGED <<files, attrs, args, phase, log>>
    /\ UNCHANGED callerVars

\* lines 311-316: the last line is added and the page is written
StyleWrite ==
    /\ phase = "change_md_style: lines"
    /\ locals.lines = <<>>
    /\ files' = WriteFile(files, locals.last, JoinWith(Flushed(locals), Ord("\n")))
    /\ locals' = [todo |-> locals.todo, last |-> locals.last]
    /\ phase' = "change_md_style"
    /\ UNCHANGED <<attrs, args, log>>
    /\ UNCHANGED callerVars

\* change_md_style returns
ChangeMdStyleReturn ==
    /\ phase = "change_md_style"
    /\ locals.todo = {}
    /\ phase' = "if wikilinks"
    /\ locals' = <<>>
    /\ UNCHANGED <<files, attrs, args, log>>
    /\ UNCHANGED callerVars

----------------------------------------------------------------------------
(* reformat_links *)

\* line 463: main() calls reformat_links(), which makes its MdLinkParser
ReformatLinksStart ==
    /\ phase = "if wikilinks"
    /\ MainCondition(4)
    /\ phase' = "reformat_links"
    /\ locals' = [todo |-> Glob(files), last |-> <<>>]
    /\ Install(NewParser)
    /\ UNCHANGED <<pc, op, data, text, ret, calls, before>>
    /\ UNCHANGED <<files, attrs, args, log>>

\* lines 470-473, from the instance and the new lines of out: a line with
\* '](' goes through to_wikilinks, which may raise
ReformattedLine(out, line) ==
    IF out.self.exc THEN {out}
    ELSE IF Contains(line, LinkMark)
    THEN {IF fed.exc THEN [out EXCEPT !.self = fed]
          ELSE [self |-> close(fed), newlines |-> Append(out.newlines, join(close(fed).results))] :
             fed \in feed({reset(out.self)}, line)}
    ELSE {[out EXCEPT !.newlines = Append(@, line)]}

\* lines 464-468: the loop takes a page and reads its lines
ReformatOpen ==
    /\ phase = "reformat_links"
    /\ \E noteFile \in NextFiles(locals.todo, locals.last) :
          /\ locals' = [todo |-> locals.todo \ {noteFile}, last |-> noteFile,
                        lines |-> readlines(files[noteFile]), newlines |-> <<>>]
          /\ log' = log \cup {<<"Reformatting links", noteFile>>}
    /\ phase' = "reformat_links: lines"
    /\ UNCHANGED <<files, attrs, args>>
    /\ UNCHANGED callerVars

\* lines 469-473: one turn of the loop over the lines; an exception of
\* to_wikilinks leaves reformat_links and main()
ReformatLine ==
    /\ phase = "reformat_links: lines"
    /\ locals.lines # <<>>
    /\ \E out \in ReformattedLine([self |-> Self, newlines |-> locals.newlines],
                                  Head(locals.lines)) :
          /\ Install(out.self)
          /\ locals' = [locals EXCEPT !.lines = Tail(@), !.newlines = out.newlines]
          /\ phase' = IF out.self.exc THEN "raised" ELSE phase
    /\ UNCHANGED <<pc, op, data, text, ret, calls, before>>
    /\ UNCHANGED <<files, attrs, args, log>>

\* lines 474-475: the new lines are written to the page
ReformatWrite ==
    /\ phase = "reformat_links: lines"
    /\ locals.lines = <<>>
    /\ files' = WriteFile(files, locals.last, join(locals.newlines))
    /\ locals' = [todo |-> locals.todo, last |-> locals.last]
    /\ phase' = "reformat_links"
    /\ UNCHANGED <<attrs, args, log>>
    /\ UNCHANGED callerVars

\* reformat_links returns
ReformatLinksReturn ==
    /\ phase = "reformat_links"
    /\ locals.todo = {}
    /\ phase' = "print Done"
    /\ locals' = <<>>
    /\ UNCHANGED <<files, attrs, args, log>>
    /\ UNCHANGED callerVars

----------------------------------------------------------------------------
(* main *)

\* the user (or a test) sets a module attribute before main() is called
SetAttribute(name, value) ==
    /\ phase = "none"
    /\ attrs' = [n \in DOMAIN attrs \cup {name} |-> IF n = name THEN value ELSE attrs[n]]
    /\ UNCHANGED <<files, args, phase, locals, log>>
    /\ UNCHANGED callerVars

\* main(backticks, wikilinks, preserveAt) is called and prints its first line
MainCall(a) ==
    /\ phase = "none"
    /\ args' = a
    /\ phase' = "if RENAME_PAGES"
    /\ log' = log \cup {<<"Convert Zim export">>}
    /\ UNCHANGED <<files, attrs, locals>>
    /\ UNCHANGED callerVars

\* an if statement of main() whose condition is false
SkipProcedure ==
    /\ \E step \in 1..4 :
          /\ phase = MainSteps[step]
          /\ ~MainCondition(step)
          /\ phase' = MainSteps[step + 1]
    /\ UNCHANGED <<files, attrs, args, locals, log>>
    /\ UNCHANGED callerVars

\* line 493: main() prints 'Done.' and returns
MainReturn ==
    /\ phase = "print Done"
    /\ phase' = "done"
    /\ log' = log \cup {<<"Done">>}
    /\ UNCHANGED <<files, attrs, args, locals>>
    /\ UNCHANGED callerVars

\* the default values of the arguments of main()
DefaultArgs == [backticks |-> FALSE, wikilinks |-> FALSE, preserveAt |-> FALSE]

\* the module attributes as the module sets them, lines 93-100
DefaultAttrs ==
    [RENAME_PAGES |-> TRUE, REMOVE_FIRST_LINE |-> TRUE, CHANGE_MARKDOWN_STYLE |-> TRUE]

\* the steps of main() and of the procedures it calls
MainRuns ==
    \/ RenamePagesStart \/ RenamePage \/ SecondRunStart \/ AdjustLinks \/ RenamePagesReturn
    \/ RemoveFirstLineStart \/ RemoveFirstLine \/ RemoveFirstLineReturn
    \/ ChangeMdStyleStart \/ StyleOpen \/ StyleLine \/ StyleWrite \/ ChangeMdStyleReturn
    \/ ReformatLinksStart \/ ReformatOpen \/ ReformatLine \/ ReformatWrite
    \/ ReformatLinksReturn
    \/ SkipProcedure
    \/ MainReturn

----------------------------------------------------------------------------
(* main() on a directory of a few pages *)

MaxPages == 2

PageNames ==
    {<<Ord("a")>> \o MdExtension, <<Ord("b")>> \o MdExtension,
     <<Ord("d"), Ord("/"), Ord("a")>> \o MdExtension}

\* a page with a heading and a link to rename; a page without heading whose
\* link has no address; a page with a link that urlparse raises on; a page
\* with a Setext heading and an external link; an empty page
PageTexts ==
    {<<Ord("#"), Ord(" "), Ord("b"), Ord("\n")>> \o Link(<<Ord("x")>>, <<Ord("a")>> \o MdExtension),
     Link(<<Ord("Y")>>, <<>>) \o <<Ord("\n"), Ord("Y"), Ord("\n")>>,
     <<Ord("#"), Ord(" "), Ord("a"), Ord("\n")>> \o Link(<<>>, <<Ord("/"), Ord("/"), Ord("[")>>),
     <<Ord("X"), Ord("\n"), Ord("="), Ord("\n")>> \o Link(<<Ord("x")>>, Scheme \o <<Ord("a")>>),
     <<>>}

\* the directories of at most n pages
Directories(n) ==
    UNION {[names -> PageTexts] : names \in {ns \in SUBSET PageNames : Cardinality(ns) <= n}}

MainArgs == [backticks : BOOLEAN, wikilinks : BOOLEAN, preserveAt : BOOLEAN]

InitMain ==
    /\ NewCaller(0)
    /\ files \in Directories(MaxPages)
    /\ attrs = DefaultAttrs
    /\ args = <<>>
    /\ phase = "none"
    /\ locals = <<>>
    /\ log = {}

NextMain ==
    \/ \E name \in {"RENAME_PAGES", "REMOVE_FIRST_LINE", "CHANGE_MARKDOWN_STYLE"} :
          SetAttribute(name, FALSE)
    \/ SetAttribute("REFORMAT_LINKS", TRUE)
    \/ \E a \in MainArgs : MainCall(a)
    \/ MainRuns

SpecMain == InitMain /\ [][NextMain]_vars

WikiMark == <<Ord("["), Ord("[")>>

\* no page holds the start of a wikilink
NoWikilink(fs) == \A path \in DOMAIN fs : ~Contains(fs[path], WikiMark)

C14_AttributeEnablesLinks ==
    (/\ phase = "done"
     /\ args = DefaultArgs
     /\ "REFORMAT_LINKS" \in DOMAIN attrs
     /\ attrs.REFORMAT_LINKS) =>
        \A path \in Glob(files) : <<"Reformatting links", path>> \in log

----------------------------------------------------------------------------
(* rename_pages() on a directory of a few notes *)

MaxNotes == 3

NoteNames ==
    {<<Ord("a")>> \o MdExtension, <<Ord("T")>> \o MdExtension,
     <<Ord("d"), Ord("/"), Ord("a")>> \o MdExtension,
     <<Ord("d"), Ord("/"), Ord("T")>> \o MdExtension}

\* a note with the heading 'T'; a note whose heading holds a forbidden
\* character and spaces around 'T', with a link to a.md; a note without
\* heading with a link to ./a.md; a note with the heading 'a' and a link to
\* d/a.md
NoteTexts ==
    {<<Ord("#"), Ord(" "), Ord("T"), Ord("\n")>>,
     <<Ord("#"), Ord(" "), Ord(":"), Ord("T"), Ord(" "), Ord("\n")>>
         \o Link(<<Ord("x")>>, <<Ord("a")>> \o MdExtension) \o <<Ord("\n")>>,
     Link(<<Ord("x")>>, <<Ord("."), Ord("/"), Ord("a")>> \o MdExtension) \o <<Ord("\n")>>,
     <<Ord("#"), Ord(" "), Ord("a"), Ord("\n")>>
         \o Link(<<Ord("x")>>, <<Ord("d"), Ord("/"), Ord("a")>> \o MdExtension)}

InitRename ==
    /\ NewCaller(0)
    /\ files \in UNION {[names -> NoteTexts] :
                           names \in {ns \in SUBSET NoteNames : Cardinality(ns) <= MaxNotes}}
    /\ attrs = DefaultAttrs
    /\ args = DefaultArgs
    /\ phase = "if RENAME_PAGES"
    /\ locals = <<>>
    /\ log = {}

NextRename ==
    \/ RenamePagesStart
    \/ RenamePage
    \/ SecondRunStart
    \/ AdjustLinks
    \/ RenamePagesReturn

SpecRename == InitRename /\ [][NextRename]_vars

\* the contents of the pages, each as often as there are pages that hold it
Contents(fs) ==
    [content \in {fs[path] : path \in DOMAIN fs} |-> Cardinality({path \in DOMAIN fs : fs[path] = content})]

\* the name rename_pages gives the page noteFile, 'T.md' for the first line
\* '# T', in the directory of the page
HeadingFile(fs, noteFile) ==
    NoteDir(noteFile)
        \o Remove(Strip(Drop(readlines(fs[noteFile])[1], 2)), ForbiddenCharacters)
        \o MdExtension

\* the page noteFile starts with a heading that is not its name
HasOtherName(fs, noteFile) ==
    /\ fs[noteFile] # <<>>
    /\ StartsWith(fs[noteFile], HeadingMark)
    /\ HeadingFile(fs, noteFile) # noteFile

\* the page that could not be renamed
KeptPages == {message[2] : message \in {m \in log : m[1] = "Cannot rename"}}

\* the link address that leads from the page noteFile to the page path, <<>>
\* if the model has none
AddressOf(noteFile, path) ==
    IF NoteDir(noteFile) = NoteDir(path) THEN Basename(path)
    ELSE IF NoteDir(noteFile) = <<>> THEN path
    ELSE <<>>

\* the line holds a link to the page path
LinksTo(line, noteFile, path) ==
    /\ AddressOf(noteFile, path) # <<>>
    /\ Contains(line, LinkMark \o AddressOf(noteFile, path) \o <<Ord(")")>>)

\* C15, the first run: a page whose first line is '# T' gets the name 'T.md'
\* (forbidden characters removed) in its directory unless a file of that name
\* exists; then the page keeps its name, 'Cannot rename' is printed and the
\* loop goes on. No step of the first run changes the number of pages or the
\* contents of the pages.
C15_FirstRunKeepsPages ==
    [][RenamePage =>
          LET noteFile == locals'.last
              newFile == HeadingFile(files, noteFile)
          IN  /\ Cardinality(DOMAIN files') = Cardinality(DOMAIN files)
              /\ Contents(files') = Contents(files)
              /\ phase' = phase
              /\ locals'.todo = locals.todo \ {noteFile}
              /\ IF HasOtherName(files, noteFile)
                 THEN IF newFile \in DOMAIN files
                      THEN /\ files' = files
                           /\ <<"Cannot rename", noteFile, newFile>> \in log'
                           /\ locals'.noteNames = locals.noteNames
                      ELSE /\ DOMAIN files' = (DOMAIN files \ {noteFile}) \cup {newFile}
                           /\ files'[newFile] = files[noteFile]
                           /\ \A path \in DOMAIN files \ {noteFile} : files'[path] = files[path]
                 ELSE files' = files /\ log' = log]_vars

\* a page was renamed after another one could not be renamed
C15_Witness ==
    /\ phase = "rename_pages: first run"
    /\ KeptPages # {}
    /\ \E message \in log : message[1] = "Renaming" /\ message[2] \notin KeptPages
    /\ \E i \in 1..Len(locals.noteNames) : locals.noteNames[i][1] = Basename(locals.last)

\* C15: rename_pages renames a page to the name its heading gives and never
\* overwrites a page; when the new name exists the page keeps its name, a
\* message is printed, the run goes on, and the second run adjusts no link to
\* the page that was not renamed
C15_KeptPageKeepsLinks ==
    [][AdjustLinks =>
          LET noteFile == locals'.last
              old == SplitAt(files[noteFile], Ord("\n"))
              new == SplitAt(files'[noteFile], Ord("\n"))
          IN  \A path \in KeptPages \cap DOMAIN files :
                 \A i \in 1..Len(old) :
                    LinksTo(old[i], noteFile, path) => (Len(new) >= i /\ new[i] = old[i])]_vars

----------------------------------------------------------------------------
(* change_md_style() on a page of a few lines *)

MaxLines == 4

\* a code block marker, a line with a tag, the underlines of a second and of
\* a first level heading, a line with inline code between a highlighting and
\* a tag, a ruler
StyleLines ==
    {CodeBlockMarker,
     <<Ord("@"), Ord("a")>>,
     <<Ord("-"), Ord("-")>>,
     <<Ord("=")>>,
     <<Ord("_"), Ord("_"), Ord("c"), Ord("_"), Ord("_"), InlineCodeMarker, Ord("@"), Ord("a"),
       InlineCodeMarker, Ord("@"), Ord("b")>>,
     <<Ord("*")>>}

InitStyle ==
    /\ NewCaller(0)
    /\ \E lines \in StrUpTo(StyleLines, MaxLines) :
          files = [path \in {<<Ord("a")>> \o MdExtension} |-> JoinWith(lines, Ord("\n"))]
    /\ attrs = DefaultAttrs
    /\ args \in [backticks : BOOLEAN, wikilinks : {FALSE}, preserveAt : BOOLEAN]
    /\ phase = "if CHANGE_MARKDOWN_STYLE"
    /\ locals = <<>>
    /\ log = {}

NextStyle ==
    \/ ChangeMdStyleStart
    \/ StyleOpen
    \/ StyleLine
    \/ StyleWrite
    \/ ChangeMdStyleReturn

SpecStyle == InitStyle /\ [][NextStyle]_vars

\* the chunks of a line that are inline code
InlineCode(line) ==
    LET chunks == SplitAt(line, InlineCodeMarker)
    IN  [i \in 1..(Len(chunks) \div 2) |-> chunks[2 * i]]

\* the loop reads a line in the backticks mode
ReadsLine == StyleLine /\ args.backticks

\* the line the loop reads is one of a code block: the code block mode is on
\* and the line does not turn it off
InCodeBlock == locals.isCodeblock /\ ~StartsWith(Head(locals.lines), CodeBlockMarker)

\* the line before goes to the lines to write as it is, and the line read is
\* the next one to go there
KeepsLines ==
    /\ locals'.newLines = Flushed(locals)
    /\ locals'.previousLine = Head(locals.lines)

\* the line before stays the next one to write with its inline code, or goes
\* to the lines to write as it is
KeepsInlineCode ==
    \/ /\ locals.previousLine # None
       /\ locals'.newLines = locals.newLines
       /\ InlineCode(locals'.previousLine) = InlineCode(locals.previousLine)
    \/ /\ locals'.newLines = Flushed(locals)
       /\ InlineCode(locals'.previousLine) = InlineCode(Head(locals.lines))

\* C16, inline code: in the backticks mode every odd-indexed chunk between '`'
\* markers of a line outside a code block is written unchanged
C16_InlineCodeKept ==
    [][/\ (ReadsLine /\ ~InCodeBlock) => KeepsInlineCode
       /\ (StyleWrite /\ args.backticks /\ locals.previousLine # None) =>
             \E rest \in {<<>>, <<Ord("\n")>>} :
                IsSuffix(rest \o locals.previousLine, files'[locals.last])]_vars

\* a line with inline code was converted around its inline code and written
C16_Witness ==
    /\ phase = "change_md_style"
    /\ args.backticks
    /\ locals.todo = {}
    /\ \E line \in Range(SplitAt(files[locals.last], Ord("\n"))) :
          /\ line \notin StyleLines
          /\ InlineCode(line) = <<<<Ord("@"), Ord("a")>>>>

\* C16: in the backticks mode every line read while the code block mode is on
\* is written unchanged and changes no other line, and every odd-indexed chunk
\* between '`' markers of a line outside a code block is written unchanged
C16_CodeExcluded ==
    [][/\ (ReadsLine /\ InCodeBlock) => KeepsLines
       /\ (ReadsLine /\ ~InCodeBlock) => KeepsInlineCode]_vars

----------------------------------------------------------------------------
(* The handlers, one character at a time *)

\* the character that the loop of feed reads in this step
Char == Head(data)

\* '[' + description + ']'
Bracketed(desc) == <<Ord("[")>> \o desc \o <<Ord("]")>>

\* the instance in BODY with the bracketed text put back to the result
Restored(self) ==
    [self EXCEPT !.results = Append(@, Bracketed(self.descBuffer)),
                 !.descBuffer = <<>>,
                 !.state = BODY]

\* the instance after the step is one of selves, the result taken as a string
LeavesOneOf(selves) ==
    \E next \in selves :
       /\ state' = next.state
       /\ descBuffer' = next.descBuffer
       /\ addrBuffer' = next.addrBuffer
       /\ join(results') = join(next.results)

\* C17, what handle_data does: in LINK a character other than '(' puts
\* '[' + description + ']' and then the character to the result, clears the
\* description buffer and returns to BODY
C17_LinkRestored ==
    [][(FeedChar /\ state = LINK /\ Char # Ord("(")) =>
          /\ join(results') = join(results) \o Bracketed(descBuffer) \o <<Char>>
          /\ descBuffer' = <<>>
          /\ addrBuffer' = addrBuffer
          /\ state' = BODY]_vars

\* C17: in LINK a character c other than '(' leaves the parser as feeding c
\* leaves a parser in BODY whose result holds the restored '[description]';
\* c = '[' opens a new description
C17_LinkThenBody ==
    [][(FeedChar /\ state = LINK /\ Char # Ord("(")) =>
          LeavesOneOf(markup(Restored(Self), Char))]_vars

\* C18: a fed character changes the state only as the transition table says,
\* and every other character is appended to the result in BODY, to the
\* description buffer in DESC and to the address buffer in ADDRESS
C18_TransitionTable ==
    [][FeedChar =>
          /\ state = BODY =>
                IF Char = Ord("[")
                THEN state' = DESC /\ UNCHANGED <<results, descBuffer, addrBuffer>>
                ELSE /\ state' = BODY
                     /\ results' = Append(results, <<Char>>)
                     /\ UNCHANGED <<descBuffer, addrBuffer>>
          /\ state = DESC =>
                IF Char = Ord("]")
                THEN state' = LINK /\ UNCHANGED <<results, descBuffer, addrBuffer>>
                ELSE /\ state' = DESC
                     /\ descBuffer' = Append(descBuffer, Char)
                     /\ UNCHANGED <<results, addrBuffer>>
          /\ state = LINK =>
                IF Char = Ord("(")
                THEN state' = ADDRESS /\ UNCHANGED <<results, descBuffer, addrBuffer>>
                ELSE state' = BODY
          /\ state = ADDRESS =>
                IF Char = Ord(")")
                THEN state' = BODY \/ (pc' = "raised" /\ state' = ADDRESS)
                ELSE /\ state' = ADDRESS
                     /\ addrBuffer' = Append(addrBuffer, Char)
                     /\ UNCHANGED <<results, descBuffer>>]_vars

\* a '(' was kept as data of the description and a '[' as data of the address
C18_Witness ==
    /\ pc = "feed"
    /\ state = ADDRESS
    /\ descBuffer = <<Ord("(")>>
    /\ addrBuffer = <<Ord("[")>>
    /\ results = <<>>

\* a caller that calls reset, feed and close in any order
MaxOps == 4

\* the pieces the caller feeds: parts of a link, single delimiters, and a
\* link that urlparse raises on
CallData ==
    {<<Ord("["), Ord("E")>>, LinkMark, <<Ord("E"), Ord(")")>>, <<Ord("(")>>, <<Ord("[")>>,
     <<Ord("]")>>, <<Ord(")")>>,
     Link(<<Ord("E")>>, <<Ord("/"), Ord("/"), Ord("[")>>)}

NextCalls ==
    \/ \E d \in CallData : Feed(d)
    \/ Close
    \/ Reset
    \/ FeedChar
    \/ FeedReturn

SpecCalls == InitCaller(MaxOps) /\ [][NextCalls]_vars

\* C19: after any calls of reset, feed and close the address
\* buffer holds text only in ADDRESS and both buffers are empty in BODY; a
\* ')' handled in ADDRESS leaves both buffers empty; a fed character is
\* appended to the description buffer only in DESC and to the address buffer
\* only in ADDRESS, never to both
C19_BuffersFollowState ==
    /\ [](/\ addrBuffer # <<>> => state = ADDRESS
          /\ state = BODY => (descBuffer = <<>> /\ addrBuffer = <<>>))
    /\ [][FeedChar =>
             /\ (state = ADDRESS /\ Char = Ord(")") /\ pc' # "raised") =>
                   (state' = BODY /\ descBuffer' = <<>> /\ addrBuffer' = <<>>)
             /\ descBuffer' \notin {descBuffer, <<>>} =>
                   /\ state = DESC
                   /\ descBuffer' = Append(descBuffer, Char)
                   /\ addrBuffer' = addrBuffer
             /\ addrBuffer' \notin {addrBuffer, <<>>} =>
                   /\ state = ADDRESS
                   /\ addrBuffer' = Append(addrBuffer, Char)
                   /\ descBuffer' = descBuffer]_vars

\* the caller fed a link piece by piece, and the ')' left a wikilink in the
\* result and both buffers empty
C19_Witness ==
    /\ op = "feed"
    /\ pc = "feed"
    /\ data = <<>>
    /\ state = BODY
    /\ descBuffer = <<>>
    /\ addrBuffer = <<>>
    /\ join(results) = Wikilink(<<Ord("E")>>, <<Ord("E")>>)

\* what close() puts to the result for the buffers of the instance
Pending(self) ==
    (IF self.descBuffer # <<>> THEN <<Ord("[")>> \o self.descBuffer ELSE <<>>)
        \o (IF self.addrBuffer # <<>> THEN LinkMark \o self.addrBuffer ELSE <<>>)

----------------------------------------------------------------------------
(* The lines reformat_links does not hand to the parser *)

\* '](' in line is False, and the line does not end with a bracket
Skippable(line) ==
    /\ ~Contains(line, LinkMark)
    /\ line # <<>> => Last(line) \notin {Ord("["), Ord("]")}

\* C24: to_wikilinks returns a text unchanged that has no '](' and does not
\* end with '[' or ']': the parser never is in ADDRESS, never raises, and
\* puts every bracketed text back as it was read
C24_SkippedLineUnchanged ==
    (op = "to_wikilinks" /\ Skippable(text)) =>
        /\ state # ADDRESS
        /\ addrBuffer = <<>>
        /\ pc # "raised"
        /\ pc = "idle" => ret = text

\* a text with a bracketed text that no '(' follows, and with a description
\* that is open at its end, came back unchanged
C24_Witness ==
    /\ Returned
    /\ Skippable(text)
    /\ Len(text) >= 4
    /\ SubSeq(text, 1, 2) = <<Ord("["), Ord("]")>>
    /\ state = DESC
    /\ ret = text

----------------------------------------------------------------------------
(* reformat_links() on a directory of a few pages *)

MaxLinkLines == 2

LinkPages == {<<Ord("a")>> \o MdExtension, <<Ord("b")>> \o MdExtension}

\* a line without brackets, a bracketed text without address, a link whose
\* address holds a percent-encoded newline, a link that urlparse raises on,
\* and a link without description that ends the page without newline
LinkLines ==
    {<<Ord("A"), Ord("\n")>>,
     <<Ord("["), Ord("A"), Ord("]"), Ord("\n")>>,
     Link(<<Ord("x")>>, <<Ord("%"), Ord("0"), Ord("A")>>) \o <<Ord("\n")>>,
     Link(<<>>, <<Ord("/"), Ord("/"), Ord("[")>>) \o <<Ord("\n")>>,
     Link(<<>>, <<Ord("A")>>)}

\* the texts of at most n lines; a line without newline is the last one
LinkTexts(n) ==
    {Flatten(lines) : lines \in {ls \in StrUpTo(LinkLines, n) :
                                    \A i \in 1..(Len(ls) - 1) : Last(ls[i]) = Ord("\n")}}

InitLinks ==
    /\ NewCaller(0)
    /\ files \in UNION {[names -> LinkTexts(MaxLinkLines)] : names \in SUBSET LinkPages \ {{}}}
    /\ attrs = DefaultAttrs
    /\ args = [backticks |-> FALSE, wikilinks |-> TRUE, preserveAt |-> FALSE]
    /\ phase = "if wikilinks"
    /\ locals = <<>>
    /\ log = {}

NextLinks ==
    \/ ReformatLinksStart
    \/ ReformatOpen
    \/ ReformatLine
    \/ ReformatWrite
    \/ ReformatLinksReturn

SpecLinks == InitLinks /\ [][NextLinks]_vars

\* a page is being rewritten
PageOpen == phase = "reformat_links: lines"

\* a line goes to to_wikilinks if and only if it has '](', and any other line
\* is the next new line as it is, the parser left alone
FiltersLine ==
    (ReformatLine /\ phase' # "raised") =>
        LET line == Head(locals.lines)
        IN  IF Contains(line, LinkMark)
            THEN \E converted \in to_wikilinks(Self, line) :
                    locals'.newlines = Append(locals.newlines, converted)
            ELSE /\ locals'.newlines = Append(locals.newlines, line)
                 /\ UNCHANGED <<results, descBuffer, addrBuffer, state>>

\* a page is written once, as a whole, after all its lines were read and
\* converted, and the next page is opened after that
WritesWholePage ==
    /\ files' # files =>
          /\ PageOpen
          /\ locals.lines = <<>>
          /\ Len(locals.newlines) = Len(readlines(files[locals.last]))
          /\ files' = [files EXCEPT ![locals.last] = Flatten(locals.newlines)]
          /\ ~PageOpen'
    /\ PageOpen' /\ ~PageOpen =>
          /\ locals'.lines = readlines(files[locals'.last])
          /\ locals'.newlines = <<>>
          /\ locals'.last \in locals.todo
    /\ PageOpen /\ ~PageOpen' /\ phase' # "raised" => files'[locals.last] = Flatten(locals.newlines)

\* the page that is written has the lines it had, in their order: as many
\* lines, and every line without '](' where it was
SameLines(old, new) ==
    /\ Len(new) = Len(old)
    /\ \A i \in 1..Len(old) : ~Contains(old[i], LinkMark) => new[i] = old[i]

\* C21, without the number of lines: a line goes to to_wikilinks if and only
\* if it has '](', every other line is kept as it is, and a page is read
\* completely before it is written and written before the next one is opened
C21_LinesFiltered == [][FiltersLine /\ WritesWholePage]_vars

\* C21: reformat_links hands a line to to_wikilinks if and only if it has
\* '](' and writes every other line back as it is, the number and the order
\* of the lines of a page do not change, and a page is read completely before
\* it is written and finished before the next page is opened
C21_PageRewritten ==
    [][/\ FiltersLine
       /\ WritesWholePage
       /\ ReformatWrite =>
             SameLines(readlines(files[locals.last]), readlines(files'[locals.last]))]_vars

----------------------------------------------------------------------------
(* The order of the procedures of main() *)

\* where main() is, as a number: the if statements, and the procedure that
\* each of them calls
Rank(p) ==
    CASE p = "none" -> 0
      [] p = "if RENAME_PAGES" -> 1
      [] p \in {"rename_pages: first run", "rename_pages: second run"} -> 2
      [] p = "if REMOVE_FIRST_LINE" -> 3
      [] p = "remove_first_line" -> 4
      [] p = "if CHANGE_MARKDOWN_STYLE" -> 5
      [] p \in {"change_md_style", "change_md_style: lines"} -> 6
      [] p = "if wikilinks" -> 7
      [] p \in {"reformat_links", "reformat_links: lines"} -> 8
      [] p = "print Done" -> 9
      [] p = "done" -> 10
      [] p = "raised" -> 11

\* main() is at the if statement step
AtStep(p, step) == Rank(p) = 2 * step - 1

\* main() is in the procedure of the if statement step
InProcedure(p, step) == Rank(p) = 2 * step

\* the procedure has no page open and no page left
Finished(l) == l.todo = {} /\ "lines" \notin DOMAIN l

\* C22: main() runs the procedures that are enabled, in the order
\* rename_pages, remove_first_line, change_md_style, reformat_links; a
\* procedure starts with all pages and returns when it is through with all of
\* them; the first line of a page is removed only after rename_pages is
\* through with the page
C22_PhasesInOrder ==
    [][/\ Rank(phase') >= Rank(phase)
       /\ \A step \in 1..4 :
             /\ AtStep(phase, step) =>
                   IF MainCondition(step)
                   THEN InProcedure(phase', step) /\ locals'.todo = Glob(files)
                   ELSE AtStep(phase', step + 1)
             /\ (InProcedure(phase, step) /\ ~InProcedure(phase', step)) =>
                   \/ AtStep(phase', step + 1) /\ Finished(locals)
                   \/ phase' = "raised" /\ step = 4
             /\ (InProcedure(phase, step) /\ phase = "rename_pages: first run"
                   /\ phase' = "rename_pages: second run") =>
                   locals.todo = {}
       /\ (RemoveFirstLine /\ attrs.RENAME_PAGES) =>
             <<"Adjusting links", locals'.last>> \in log]_vars

\* main() is through with its four procedures: a page was renamed, lost its
\* first line, had its heading converted and its link left as it is
C22_Witness ==
    /\ phase = "done"
    /\ attrs = DefaultAttrs
    /\ args.wikilinks
    /\ \A kind \in {"Renaming", "Adjusting links", "Removing the first line",
                    "Reformatting headings", "Reformatting links"} :
          \E message \in log : message[1] = kind
    /\ Cardinality(DOMAIN files) = 2

----------------------------------------------------------------------------
(* Setext headings *)

\* the line the loop reads is the underline of a heading: '# ' for a line of
\* '=', '## ' for a line of '-', <<>> for any other line
Underline(line) ==
    IF OnlyOf(line, Ord("=")) THEN <<Ord("#"), Ord(" ")>>
    ELSE IF OnlyOf(line, Ord("-")) THEN <<Ord("#"), Ord("#"), Ord(" ")>>
    ELSE <<>>

\* an underline is not written, and the line before it, which is the next
\* line to write, gets the mark of the heading; without a line before it
\* there is nothing to write
ConvertsHeading ==
    /\ locals'.newLines = locals.newLines
    /\ locals'.previousLine =
          IF locals.previousLine = None THEN None
          ELSE Underline(Head(locals.lines)) \o locals.previousLine

\* any other line becomes the next line to write, and the line before it goes
\* to the lines to write, after the ones that are there
WritesLineBefore ==
    /\ IsPrefix(Flushed(locals), locals'.newLines)
    /\ locals'.previousLine # None

\* C23, for the underlines that follow a line: the line before an underline is
\* written with '# ' or '## ' before it and the underline is not written
C23_HeadingsConverted ==
    [][(StyleLine /\ Underline(Head(locals.lines)) # <<>> /\ locals.previousLine # None) =>
          ConvertsHeading]_vars

\* C23: change_md_style writes the line before a line of only '=' (only '-')
\* as '# ' ('## ') and the text of that line, does not write the underline,
\* and writes every other line once and in its order, also when the underline
\* is the first line of the page or follows another underline
C23_SetextToAtx ==
    [][/\ StyleLine =>
             IF Underline(Head(locals.lines)) # <<>> THEN ConvertsHeading ELSE WritesLineBefore
       /\ StyleWrite => files'[locals.last] = JoinWith(Flushed(locals), Ord("\n"))]_vars

====
